---- MODULE Spec2Model ----
(***************************************************************************)
(* A model of the ecommerce analytics stack: the warehouse tables, the     *)
(* recommendation job (local_env/mlflow/recommendation/main.py), the       *)
(* churn feature engineering (ml_models/churn_prediction), the model       *)
(* registry with the prediction API (model_api/app/main.py), the           *)
(* ingestion DAGs, the churn trainer, the data generator with its quality  *)
(* checks, the two warehouse loaders and the MLflow database start-up.     *)
(*                                                                         *)
(* Floating point numbers are modelled in fixed point: a score s of the    *)
(* program is the integer s * Unit, products and quotients truncate.       *)
(***************************************************************************)
EXTENDS Integers, Sequences, FiniteSets, Bags, TLC

\* ------------------------------------------------------------- bounds
NumUsers == 2
NumProducts == 4
MaxSales == 2
MaxN == 2
NumEst == 2
Unit == 10
\* the day NOW() falls on
NowDay == 100
\* longest request body of POST /predict/churn
MaxRecords == 2
\* the rows the data generator is asked for: users, products and sales
GenUsers == 2
GenProducts == 2
GenSales == 2
\* how often each loader is run
MaxRuns == 2
\* the last second of the clock at which the database may be up
MaxSecond == 8

\* ------------------------------------------------- program constants
\* Reader(rating_scale=(1, 10))
RatingMin == 1
\* dict.get(pid, 0)
DefaultScore == 0
\* pivot_table(..., fill_value=0)
PivotFill == 0
\* WHEN EXTRACT(DAY FROM NOW() - MAX(sale_date)) > 90
ChurnDays == 90
\* COALESCE(cs.churned, 1)
ChurnedIfNoSales == 1
\* replace(0, 1), replace([np.inf, -np.inf], 0), fillna(0)
ZeroDuration == 0
DurationFloor == 1
CleanValue == 0

UserIds == 1..NumUsers
ProductIds == 1..NumProducts
Ns == 1..MaxN
\* alpha = 0, 0.5 (the default) and 1
AlphaVals == {0, Unit \div 2, Unit}
\* rows of the product feature table: [price_scaled, category indicator]
FeatureVals == {<<1, 0>>, <<0, 1>>, <<-1, 0>>}
\* estimates of the factorization model, inside the rating scale
EstVals == {(RatingMin + i) * Unit : i \in 0..(NumEst - 1)}
\* the values the recommendation job never reads are held at these
DefaultAmount == 1
DefaultDate == 0
\* the values the churn job reads: sale amounts and sale dates (days)
Amounts == {3, 5}
SaleDates == {NowDay - ChurnDays - 1, NowDay - ChurnDays, NowDay - 1, NowDay}
\* the product the sales of the churn job are about
AnyProduct == 1

VARIABLES
    users,             \* warehouse table users: a set of rows
    products,          \* warehouse table products: the product ids in it
    sales,             \* warehouse table sales: a bag of rows
    pc,                \* position of the recommendation job in main()
    interactions,      \* the interaction rows load_data returned
    ratings_matrix,    \* RecommendationSystem.ratings_matrix
    product_features,  \* RecommendationSystem.product_features
    call,              \* the last recommendation call: method and arguments (est: what
                       \* algo.predict answers for the user, per product)
    result,            \* what that call returned (or the exception it raised)
    hybrid_scores,     \* the hybrid_scores dict of the last hybrid call
    fe_pc,             \* position of the churn job in main()
    df,                \* the frame load_data returned (engineer_features adds columns)
    features,          \* the frame engineer_features returned
    registry,          \* MLflow model registry: a set of model versions
    jobs,              \* the training jobs: "idle" or "done" (main() returned)
    request,           \* the last request the prediction API received
    response,          \* the answer it gave
    task_state,        \* Airflow: state of each task instance of the one run of each DAG
    try_number,        \* Airflow: how often each task instance was started
    cf_interactions,   \* the frame collaborative_filtering was called with
    cf_result,         \* what that call returned (or the exception it raised)
    split,             \* what preprocess_data returned
    inflight,          \* the API requests being handled, each with its handler's locals
    trainer_impl,      \* which ChurnModelTrainer class the trainer object is of
    champion_name,     \* ChurnModelTrainer.champion_name
    champion_model,    \* ChurnModelTrainer.champion_model
    train_result,      \* what the last train_models call returned
    tune_result,       \* the last hyperparameter_tuning call: estimator searched, outcome
    gen_pc,            \* position of data_generator.main()
    users_df,          \* the frames the generator built
    products_df,
    sales_df,
    csv,               \* the CSV files in the data directory
    check_result,      \* outcome of the data quality checks
    db,                \* the database the loaders write to: its tables
    load_runs,         \* the outcomes of the loader runs so far
    conn_pc,           \* position of init_mlflow_db / check_db_connection
    attempt,           \* the loop variable i of check_db_connection
    waits,             \* the time.sleep(delay) calls made
    clock,             \* seconds since the script started
    db_up,             \* the seconds at which postgres accepts a connection
    conn_result,       \* what check_db_connection returned
    upgraded           \* "mlflow db upgrade" was run

vars == <<users, products, sales, pc, interactions, ratings_matrix,
          product_features, call, result, hybrid_scores, fe_pc, df, features,
          registry, jobs, request, response, task_state, try_number,
          cf_interactions, cf_result, split, inflight, trainer_impl,
          champion_name, champion_model, train_result, tune_result, gen_pc,
          users_df, products_df, sales_df, csv, check_result, db, load_runs,
          conn_pc, attempt, waits, clock, db_up, conn_result, upgraded>>

apiVars == <<registry, jobs, request, response>>
dagVars == <<task_state, try_number>>
cfVars == <<cf_interactions, cf_result>>
concVars == <<inflight>>
trainerVars == <<trainer_impl, champion_name, champion_model, train_result, tune_result>>
genVars == <<gen_pc, users_df, products_df, sales_df, csv, check_result>>
loadVars == <<db, load_runs>>
connVars == <<conn_pc, attempt, waits, clock, db_up, conn_result, upgraded>>
\* the variables of the later sections, but split
moreVars == <<cfVars, concVars, trainerVars, genVars, loadVars, connVars>>
svcVars == <<apiVars, dagVars, split, moreVars>>

recVars == <<pc, interactions, ratings_matrix, product_features, call, result,
            hybrid_scores>>
feVars == <<fe_pc, df, features>>

\* ----------------------------------------------------------- helpers
RECURSIVE SumOver(_, _)
SumOver(S, f) ==
    IF S = {} THEN 0
    ELSE LET x == CHOOSE y \in S : TRUE
         IN f[x] + SumOver(S \ {x}, f)

\* ascending list of a set of ids: the order pandas gives a sorted index
RECURSIVE SortedIds(_)
SortedIds(S) ==
    IF S = {} THEN <<>>
    ELSE LET m == CHOOSE y \in S : \A z \in S : y <= z
         IN <<m>> \o SortedIds(S \ {m})

\* the orders in which a Python set may hand out its elements
IterationOrders(S) ==
    {q \in [1..Cardinality(S) -> S] : \A i, j \in DOMAIN q : i # j => q[i] # q[j]}

Range(q) == {q[i] : i \in DOMAIN q}

Prefix(q, n) == SubSeq(q, 1, IF n < Len(q) THEN n ELSE Len(q))

\* float division in fixed point, truncating towards zero
FDiv(a, b) == IF a >= 0 THEN a \div b ELSE -((-a) \div b)

\* float product of two fixed-point numbers
FMul(a, b) == FDiv(a * b, Unit)

ISqrt(x) == CHOOSE r \in 0..x : r * r <= x /\ (r + 1) * (r + 1) > x

Dot(a, b) == SumOver(DOMAIN a, [i \in DOMAIN a |-> a[i] * b[i]])

NoRecs == [err |-> "none", recs |-> <<>>]
KeyError == [err |-> "KeyError", recs |-> <<>>]
Returned(q) == [err |-> "none", recs |-> q]

NoCall == [op |-> "none", user_id |-> 0, n |-> 0, alpha |-> 0, est |-> <<>>]
EmptyMatrix == [index |-> {}, columns |-> {}, val |-> <<>>]

\* ------------------------------------------------ warehouse (the tables)
SaleRow(u, p, amount, date) ==
    [user_id |-> u, product_id |-> p, sale_amount |-> amount, sale_date |-> date]

UserRow(u) == [user_id |-> u, country |-> "US", age |-> 30]

\* ---------------------------------------- registry, API and DAGs at rest
\* the two registered model names
ChurnModelName == "churn_prediction_model"
RecommendationModelName == "product_recommendation_model"
ModelNames == {ChurnModelName, RecommendationModelName}

\* a model version of the registry; artifact: the source it points to holds a
\* logged model
ModelVersion(name, version, stage, artifact) ==
    [name |-> name, version |-> version, stage |-> stage, artifact |-> artifact]

\* the two training jobs
JobNames == {"churn", "recommendation"}

NoRequest == [endpoint |-> "none", users |-> <<>>, user_id |-> 0, n |-> 0]
NoResponse ==
    [status |-> 0, detail |-> "", user_id |-> 0, results |-> <<>>,
     model_status |-> <<>>, row |-> <<>>]

\* the two DAG files (both declare dag_id 'ingest_data_pipeline')
Dags == {"data_engineering", "local_env"}

\* generate_data >> data_quality_check >> load_to_postgres, and
\* data_quality_check >> schema_to_postgres >> load_to_postgres >> sales_to_postgres
Chain(d) ==
    IF d = "data_engineering"
    THEN <<"generate_data", "data_quality_check", "load_to_postgres">>
    ELSE <<"data_quality_check", "schema_to_postgres", "load_to_postgres",
           "sales_to_postgres">>

\* a call that was not made yet, and Python's None
NotCalled == "not called"
None == "None"

\* train_models and hyperparameter_tuning before they were called
NoTraining ==
    [err |-> NotCalled, scores |-> <<>>, model |-> None, name |-> None, score |-> 0]
NoTuning == [err |-> NotCalled, after |-> None, searched |-> None, run_name |-> None]

\* preprocess_data before it was called
NoSplit == [err |-> NotCalled, features |-> {}, train |-> {}, test |-> {}]

\* the requests the API handles at a time
MaxInflight == 2
Slots == 1..MaxInflight
\* a handler that is not running; model, interacted_products and products_df
\* are its locals
Idle ==
    [pc |-> "idle", request |-> NoRequest, model |-> None,
     interacted_products |-> {}, products_df |-> {}, response |-> NoResponse]

\* the data directory and a database before the pipeline ran: no file, no table
TableNames == {"users", "products", "sales"}
NoFiles == [t \in TableNames |-> [exists |-> FALSE, rows |-> <<>>]]
NoTables == [t \in TableNames |-> [exists |-> FALSE, keys |-> FALSE, rows |-> <<>>]]

\* the tables, the jobs, the API, the DAG runs and the scripts before anything
\* happened
InitRest ==
    /\ jobs = [j \in JobNames |-> "idle"]
    /\ request = NoRequest
    /\ response = NoResponse
    /\ task_state = [d \in Dags |-> [i \in DOMAIN Chain(d) |-> "none"]]
    /\ try_number = [d \in Dags |-> [i \in DOMAIN Chain(d) |-> 0]]
    /\ users = {UserRow(u) : u \in UserIds}
    /\ fe_pc = "start"
    /\ df = {}
    /\ features = {}
    /\ products = {}
    /\ sales = EmptyBag
    /\ pc = "start"
    /\ interactions = {}
    /\ ratings_matrix = EmptyMatrix
    /\ product_features = <<>>
    /\ call = NoCall
    /\ result = NoRecs
    /\ hybrid_scores = <<>>
    /\ cf_interactions = {}
    /\ cf_result = NotCalled
    /\ split = NoSplit
    /\ inflight = [slot \in Slots |-> Idle]
    /\ trainer_impl = "none"
    /\ champion_name = None
    /\ champion_model = None
    /\ train_result = NoTraining
    /\ tune_result = NoTuning
    /\ gen_pc = "start"
    /\ users_df = <<>>
    /\ products_df = <<>>
    /\ sales_df = <<>>
    /\ csv = NoFiles
    /\ check_result = [d \in Dags |-> NotCalled]
    /\ db = [d \in Dags |-> NoTables]
    /\ load_runs = [d \in Dags |-> <<>>]
    /\ conn_pc = "start"
    /\ attempt = 0
    /\ waits = 0
    /\ clock = 0
    /\ conn_result = NotCalled
    /\ upgraded = FALSE

Init ==
    /\ registry = {}
    /\ db_up = {}
    /\ InitRest

\* a row is added to products (ids are handed out in sequence)
InsertProduct ==
    /\ pc = "start"
    /\ fe_pc = "start"
    /\ Cardinality(products) < NumProducts
    /\ products' = products \cup {Cardinality(products) + 1}
    /\ UNCHANGED <<svcVars, users, sales, recVars, feVars>>

\* a row is added to sales; user_id and product_id are foreign keys
InsertSale(u, p, amount, date) ==
    /\ pc = "start"
    /\ fe_pc = "start"
    /\ BagCardinality(sales) < MaxSales
    /\ u \in {r.user_id : r \in users}
    /\ p \in products
    /\ sales' = sales (+) SetToBag({SaleRow(u, p, amount, date)})
    /\ UNCHANGED <<svcVars, users, products, recVars, feVars>>

\* ------------------------------------------------- recommendation job
\* SELECT user_id, product_id, COUNT(*) ... FROM sales GROUP BY user_id, product_id
InteractionRows(s) ==
    LET rows == BagToSet(s)
        keys == {<<r.user_id, r.product_id>> : r \in rows}
        group(k) == {r \in rows : r.user_id = k[1] /\ r.product_id = k[2]}
    IN {[user_id |-> k[1], product_id |-> k[2],
         interaction_count |-> SumOver(group(k), [r \in group(k) |-> CopiesIn(r, s)])]
        : k \in keys}

LoadData ==
    /\ pc = "start"
    /\ interactions' = InteractionRows(sales)
    /\ pc' = "loaded"
    /\ UNCHANGED <<svcVars, users, products, sales, ratings_matrix, product_features,
                   call, result, hybrid_scores, feVars>>

\* interactions.pivot_table(index='user_id', columns='product_id',
\*                          values='interaction_count', fill_value=0)
\* (the default aggregation is the mean of the rows of a cell)
\* PivotCell with aggfunc='count' in place of the mean
PivotCell_Count(rows, u, p) ==
    LET cell == {r \in rows : r.user_id = u /\ r.product_id = p}
    IN IF cell = {} THEN PivotFill ELSE Cardinality(cell)

PivotCell(rows, u, p) ==
    LET cell == {r \in rows : r.user_id = u /\ r.product_id = p}
    IN IF cell = {} THEN PivotFill
       ELSE SumOver(cell, [r \in cell |-> r.interaction_count]) \div Cardinality(cell)

CreateUtilityMatrix(rows) ==
    LET idx == {r.user_id : r \in rows}
        cols == {r.product_id : r \in rows}
    IN [index |-> idx, columns |-> cols,
        val |-> [k \in idx \X cols |-> PivotCell(rows, k[1], k[2])]]

BuildMatrix ==
    /\ pc = "loaded"
    /\ ratings_matrix' = CreateUtilityMatrix(interactions)
    /\ pc' = "matrix"
    /\ UNCHANGED <<svcVars, users, products, sales, interactions, product_features,
                   call, result, hybrid_scores, feVars>>

\* rec_sys.product_features = product_features: one numeric row per product
SetFeatures ==
    /\ pc = "matrix"
    /\ \E pf \in [products -> FeatureVals] : product_features' = pf
    /\ pc' = "features"
    /\ UNCHANGED <<svcVars, users, products, sales, interactions, ratings_matrix,
                   call, result, hybrid_scores, feVars>>

\* ---------------------------------------------------------- the scorers
\* user_interactions[user_interactions > 0].index.tolist()
InteractedProducts(rm, u) == {p \in rm.columns : rm.val[<<u, p>>] > 0}

\* len(self.product_features.columns)
FeatureDims == DOMAIN (CHOOSE v \in FeatureVals : TRUE)

\* the sum of count * feature row over the interacted products, divided by
\* the number of interacted products
ProfileDivisor(rm, u) == Cardinality(InteractedProducts(rm, u))

UserProfile(rm, pf, u) ==
    LET known == InteractedProducts(rm, u) \cap DOMAIN pf
        total == [i \in FeatureDims |->
                    SumOver(known, [p \in known |-> rm.val[<<u, p>>] * pf[p][i]])]
    IN [i \in FeatureDims |-> FDiv(total[i] * Unit, ProfileDivisor(rm, u))]

\* sklearn's cosine_similarity: a row of norm zero has similarity 0
CosineSimilarity(a, b) ==
    LET na == Dot(a, a)
        nb == Dot(b, b)
    IN IF na = 0 \/ nb = 0 THEN 0
       ELSE FDiv(Dot(a, b) * Unit, ISqrt(na * nb))

\* a stable sort by descending score: list.sort(key=score, reverse=True),
\* sorted(..., reverse=True) and DataFrame.nlargest(keep='first')
ScoreBefore(q, i, j) ==
    q[i].score > q[j].score \/ (q[i].score = q[j].score /\ i < j)

SortByScoreDesc(q) ==
    LET idx == SortSeq([i \in 1..Len(q) |-> i], LAMBDA i, j : ScoreBefore(q, i, j))
    IN [k \in 1..Len(q) |-> q[idx[k]]]

Rec(p, s) == [product_id |-> p, score |-> s]

\* ContentCandidates without the filter on the interacted products
ContentCandidates_Unfiltered(rm, pf, u) == DOMAIN pf

\* the products a scorer goes through
ContentCandidates(rm, pf, u) == DOMAIN pf \ InteractedProducts(rm, u)

CollaborativeCandidates(rm, u) == rm.columns \ InteractedProducts(rm, u)

\* self.ratings_matrix.loc[user_id] raises KeyError for a label not in the index
HasRow(rm, u) == u \in rm.index

GenerateContentBasedRecommendations(rm, pf, u, n) ==
    IF ~HasRow(rm, u) THEN KeyError
    ELSE IF InteractedProducts(rm, u) = {} THEN Returned(<<>>)
    ELSE LET profile == UserProfile(rm, pf, u)
             ids == SortedIds(ContentCandidates(rm, pf, u))
             item_scores == [i \in 1..Len(ids) |->
                               Rec(ids[i], CosineSimilarity(profile, pf[ids[i]]))]
         IN Returned(Prefix(SortByScoreDesc(item_scores), n))

GenerateCollaborativeRecommendations(rm, a, u, n) ==
    IF ~HasRow(rm, u) THEN KeyError
    ELSE LET ids == SortedIds(CollaborativeCandidates(rm, u))
             predictions == [i \in 1..Len(ids) |-> Rec(ids[i], a[ids[i]])]
         IN Returned(Prefix(SortByScoreDesc(predictions), n))

\* {pid: score for pid, score in recs}
ToDict(recs) ==
    [p \in {recs[i].product_id : i \in DOMAIN recs} |->
        (CHOOSE r \in Range(recs) : r.product_id = p).score]

\* d.get(pid, 0)
Get(d, p) == IF p \in DOMAIN d THEN d[p] ELSE DefaultScore

\* Blend with the two weights exchanged
Blend_Swapped(alpha, content_score, collab_score) ==
    FMul(Unit - alpha, content_score) + FMul(alpha, collab_score)

\* alpha * content_score + (1 - alpha) * collab_score
Blend(alpha, content_score, collab_score) ==
    FMul(alpha, content_score) + FMul(Unit - alpha, collab_score)

\* the lists hybrid_recommendations asks the two scorers for
HybridListLength(n) == n * 2

HybridScores(content_recs, collab_recs, alpha) ==
    LET content_dict == ToDict(content_recs)
        collab_dict == ToDict(collab_recs)
        all_products == DOMAIN content_dict \cup DOMAIN collab_dict
    IN [p \in all_products |->
          Blend(alpha, Get(content_dict, p), Get(collab_dict, p))]

\* sorted(hybrid_scores.items(), key=score, reverse=True)[:n]; the items come
\* in the order iter in which the set all_products was gone through
TopHybrid(hs, iter, n) ==
    Prefix(SortByScoreDesc([i \in 1..Len(iter) |-> Rec(iter[i], hs[iter[i]])]), n)

\* what algo.predict(user_id, product_id).est may answer for the products
\* the collaborative scorer asks about: estimates inside the rating scale
Estimates(rm, u) ==
    IF HasRow(rm, u) THEN [CollaborativeCandidates(rm, u) -> EstVals] ELSE {<<>>}

CallContent(u, n) ==
    /\ pc = "features"
    /\ call' = [op |-> "content", user_id |-> u, n |-> n, alpha |-> 0, est |-> <<>>]
    /\ result' = GenerateContentBasedRecommendations(ratings_matrix, product_features, u, n)
    /\ hybrid_scores' = <<>>
    /\ pc' = "called"
    /\ UNCHANGED <<svcVars, users, products, sales, interactions, ratings_matrix,
                   product_features, feVars>>

CallCollaborative(u, n, est) ==
    /\ pc = "features"
    /\ call' = [op |-> "collab", user_id |-> u, n |-> n, alpha |-> 0, est |-> est]
    /\ result' = GenerateCollaborativeRecommendations(ratings_matrix, est, u, n)
    /\ hybrid_scores' = <<>>
    /\ pc' = "called"
    /\ UNCHANGED <<svcVars, users, products, sales, interactions, ratings_matrix,
                   product_features, feVars>>

CallHybrid(u, n, alpha, est) ==
    /\ pc = "features"
    /\ call' = [op |-> "hybrid", user_id |-> u, n |-> n, alpha |-> alpha, est |-> est]
    /\ \E content \in {GenerateContentBasedRecommendations(
                          ratings_matrix, product_features, u, HybridListLength(n))},
          collab \in {GenerateCollaborativeRecommendations(
                          ratings_matrix, est, u, HybridListLength(n))} :
          IF content.err # "none" \/ collab.err # "none"
          THEN /\ result' = KeyError
               /\ hybrid_scores' = <<>>
          ELSE \E hs \in {HybridScores(content.recs, collab.recs, alpha)} :
                  /\ hybrid_scores' = hs
                  /\ \E iter \in IterationOrders(DOMAIN hs) :
                        result' = Returned(TopHybrid(hs, iter, n))
    /\ pc' = "called"
    /\ UNCHANGED <<svcVars, users, products, sales, interactions, ratings_matrix,
                   product_features, feVars>>

\* the call is over: main() goes on to its next call
Return ==
    /\ pc = "called"
    /\ pc' = "features"
    /\ call' = NoCall
    /\ result' = NoRecs
    /\ hybrid_scores' = <<>>
    /\ UNCHANGED <<svcVars, users, products, sales, interactions, ratings_matrix,
                   product_features, feVars>>

Next ==
    \/ InsertProduct
    \/ \E u \in UserIds, p \in ProductIds : InsertSale(u, p, DefaultAmount, DefaultDate)
    \/ LoadData
    \/ BuildMatrix
    \/ SetFeatures
    \/ \E u \in UserIds, n \in Ns : CallContent(u, n)
    \/ \E u \in UserIds, n \in Ns :
          \E est \in Estimates(ratings_matrix, u) : CallCollaborative(u, n, est)
    \/ \E u \in UserIds, n \in Ns, alpha \in AlphaVals :
          \E est \in Estimates(ratings_matrix, u) : CallHybrid(u, n, alpha, est)
    \/ Return

Spec == Init /\ [][Next]_vars

\* ------------------------------------------------- churn feature job
\* a cell of a frame: a number (fixed point where it is a quotient), NaN/NULL
\* or an infinity
Num(x) == [k |-> "num", v |-> x]
NaN == [k |-> "nan", v |-> 0]
Inf == [k |-> "inf", v |-> 0]
NegInf == [k |-> "-inf", v |-> 0]

IsNum(x) == x.k = "num"

MinOf(S) == CHOOSE y \in S : \A z \in S : y <= z
MaxOf(S) == CHOOSE y \in S : \A z \in S : y >= z

\* the sales rows of a user, and the SQL aggregates over them (NULL over none)
SalesOf(s, u) == {r \in BagToSet(s) : r.user_id = u}

CountSales(s, u) == SumOver(SalesOf(s, u), [r \in SalesOf(s, u) |-> CopiesIn(r, s)])

SumAmount(s, u) ==
    SumOver(SalesOf(s, u), [r \in SalesOf(s, u) |-> CopiesIn(r, s) * r.sale_amount])

FirstDate(s, u) == MinOf({r.sale_date : r \in SalesOf(s, u)})

LastDate(s, u) == MaxOf({r.sale_date : r \in SalesOf(s, u)})

\* EXTRACT(DAY FROM NOW() - MAX(sale_date))
DaysSince(date) == NowDay - date

\* FROM users u LEFT JOIN sales s ON u.user_id = s.user_id GROUP BY u.user_id, ...:
\* the users the join keeps
MetricUsers(us, s) == us

UserMetrics(us, s) ==
    {[user_id |-> u.user_id, country |-> u.country, age |-> u.age,
      total_orders |-> Num(CountSales(s, u.user_id)),
      total_spent |->
          IF SalesOf(s, u.user_id) = {} THEN NaN ELSE Num(SumAmount(s, u.user_id)),
      first_order_date |->
          IF SalesOf(s, u.user_id) = {} THEN NaN ELSE Num(FirstDate(s, u.user_id)),
      last_order_date |->
          IF SalesOf(s, u.user_id) = {} THEN NaN ELSE Num(LastDate(s, u.user_id)),
      days_since_last_order |->
          IF SalesOf(s, u.user_id) = {} THEN NaN
          ELSE Num(DaysSince(LastDate(s, u.user_id))),
      avg_order_value |->
          IF SalesOf(s, u.user_id) = {} THEN NaN
          ELSE Num(FDiv(SumAmount(s, u.user_id) * Unit, CountSales(s, u.user_id)))]
     : u \in MetricUsers(us, s)}

\* Churned with the 90th day counted as churned already
Churned_AtLeast(last) == IF DaysSince(last) >= ChurnDays THEN 1 ELSE 0

\* CASE WHEN EXTRACT(DAY FROM NOW() - MAX(sale_date)) > 90 THEN 1 ELSE 0 END
Churned(last) == IF DaysSince(last) > ChurnDays THEN 1 ELSE 0

\* ... FROM sales GROUP BY user_id
ChurnStatus(s) ==
    {[user_id |-> u, churned |-> Churned(LastDate(s, u))]
     : u \in {r.user_id : r \in BagToSet(s)}}

\* SELECT um.*, COALESCE(cs.churned, 1) FROM user_metrics um
\* LEFT JOIN churn_status cs ON um.user_id = cs.user_id
WithChurned(um, churned) ==
    [user_id |-> um.user_id, country |-> um.country, age |-> um.age,
     total_orders |-> um.total_orders, total_spent |-> um.total_spent,
     first_order_date |-> um.first_order_date,
     last_order_date |-> um.last_order_date,
     days_since_last_order |-> um.days_since_last_order,
     avg_order_value |-> um.avg_order_value,
     churned |-> churned]

ChurnQuery(us, s) ==
    UNION {LET matches == {cs \in ChurnStatus(s) : cs.user_id = um.user_id}
           IN IF matches = {} THEN {WithChurned(um, ChurnedIfNoSales)}
              ELSE {WithChurned(um, cs.churned) : cs \in matches}
           : um \in UserMetrics(us, s)}

\* float arithmetic on cells
FloatSub(a, b) == IF IsNum(a) /\ IsNum(b) THEN Num(a.v - b.v) ELSE NaN

FloatDiv(a, b) ==
    IF ~IsNum(a) \/ ~IsNum(b) THEN NaN
    ELSE IF b.v = 0
         THEN IF a.v = 0 THEN NaN ELSE IF a.v > 0 THEN Inf ELSE NegInf
         ELSE Num(FDiv(a.v * Unit, b.v))

\* ReplaceZero left out
ReplaceZero_Missing(x) == x

\* Series.replace(0, 1)
ReplaceZero(x) == IF x = Num(ZeroDuration) THEN Num(DurationFloor) ELSE x

\* df.replace([np.inf, -np.inf], 0)
ReplaceInf(x) == IF x.k \in {"inf", "-inf"} THEN Num(CleanValue) ELSE x

\* df.fillna(0)
FillNa(x) == IF x.k = "nan" THEN Num(CleanValue) ELSE x

Clean(x) == FillNa(ReplaceInf(x))

\* the three columns engineer_features adds to the frame it was given
AddColumns(r) ==
    LET d == FloatSub(r.last_order_date, r.first_order_date)
    IN  [user_id |-> r.user_id, country |-> r.country, age |-> r.age,
         total_orders |-> r.total_orders, total_spent |-> r.total_spent,
         first_order_date |-> r.first_order_date,
         last_order_date |-> r.last_order_date,
         days_since_last_order |-> r.days_since_last_order,
         avg_order_value |-> r.avg_order_value,
         churned |-> r.churned,
         customer_duration_days |-> d,
         order_frequency |-> FloatDiv(r.total_orders, ReplaceZero(d)),
         daily_spend |-> FloatDiv(r.total_spent, ReplaceZero(d))]

\* df = df.replace([np.inf, -np.inf], 0); df = df.fillna(0): a new frame
CleanRow(r) ==
    [user_id |-> r.user_id, country |-> r.country, age |-> r.age,
     total_orders |-> Clean(r.total_orders), total_spent |-> Clean(r.total_spent),
     first_order_date |-> Clean(r.first_order_date),
     last_order_date |-> Clean(r.last_order_date),
     days_since_last_order |-> Clean(r.days_since_last_order),
     avg_order_value |-> Clean(r.avg_order_value),
     churned |-> r.churned,
     customer_duration_days |-> Clean(r.customer_duration_days),
     order_frequency |-> Clean(r.order_frequency),
     daily_spend |-> Clean(r.daily_spend)]

\* FeatureEngineer.load_data
FE_LoadData ==
    /\ fe_pc = "start"
    /\ df' = ChurnQuery(users, sales)
    /\ fe_pc' = "loaded"
    /\ UNCHANGED <<svcVars, users, products, sales, recVars, features>>

\* (df['last_order_date'] - df['first_order_date']).dt.days: the .dt accessor
\* takes a datetime-like column only. read_sql_query types a column from its
\* values, and one that holds NULL in every row (no user has a sale) comes
\* untyped: the accessor then raises AttributeError
DatetimeLike(frame) == \E r \in frame : IsNum(r.last_order_date)

\* FeatureEngineer.engineer_features(df): the columns are added to df itself,
\* the cleaned frame is a new one
FE_EngineerFeatures ==
    /\ fe_pc = "loaded"
    /\ IF DatetimeLike(df)
       THEN /\ df' = {AddColumns(r) : r \in df}
            /\ features' = {CleanRow(AddColumns(r)) : r \in df}
            /\ fe_pc' = "engineered"
       ELSE /\ fe_pc' = "failed"
            /\ UNCHANGED <<df, features>>
    /\ UNCHANGED <<svcVars, users, products, sales, recVars>>

\* preprocess_data: the columns the churn models are fitted on
TrainingFeatures ==
    {"age", "total_orders", "total_spent", "days_since_last_order",
     "avg_order_value", "customer_duration_days", "order_frequency",
     "daily_spend", "country_encoded"}

\* the country values of the users table, in the order LabelEncoder sorts them
Countries == <<"US">>

\* LabelEncoder.fit_transform(df['country']): the rank of a country among the
\* distinct countries of the frame
LabelEncode(frame, c) ==
    Cardinality({i \in DOMAIN Countries :
                    /\ \E r \in frame : r.country = Countries[i]
                    /\ \E j \in DOMAIN Countries : Countries[j] = c /\ i < j})

\* df['country_encoded'] = ...: the column is set on the frame that was passed in
WithCountryEncoded(frame, r) == r @@ [country_encoded |-> LabelEncode(frame, r.country)]

\* train_test_split(X, y, test_size=0.2, random_state=42, stratify=y)
TestSize == 2

TestRows(n) == (n * TestSize + Unit - 1) \div Unit

Classes(frame) == {r.churned : r \in frame}

\* the split raises ValueError when a part would be empty, when a class has
\* fewer than 2 rows or when a part has fewer rows than there are classes
CanSplit(frame) ==
    LET n == Cardinality(frame)
    IN /\ n - TestRows(n) > 0
       /\ TestRows(n) > 0
       /\ \A c \in Classes(frame) : Cardinality({r \in frame : r.churned = c}) >= 2
       /\ TestRows(n) >= Cardinality(Classes(frame))
       /\ n - TestRows(n) >= Cardinality(Classes(frame))

\* the parts the shuffle of random_state=42 may give: the user ids of the test
\* rows and of the train rows, with the feature list
Splits(frame) ==
    {[err |-> "none", features |-> TrainingFeatures,
      train |-> {r.user_id : r \in frame} \ T, test |-> T]
     : T \in {S \in SUBSET {r.user_id : r \in frame} :
                 Cardinality(S) = TestRows(Cardinality(frame))}}

\* FeatureEngineer.preprocess_data(df), called with the frame engineer_features
\* returned
FE_PreprocessData ==
    /\ fe_pc = "engineered"
    /\ features' = {WithCountryEncoded(features, r) : r \in features}
    /\ IF CanSplit(features)
       THEN /\ split' \in Splits(features)
            /\ fe_pc' = "preprocessed"
       ELSE /\ split' = [NoSplit EXCEPT !.err = "ValueError"]
            /\ fe_pc' = "split failed"
    /\ UNCHANGED <<apiVars, dagVars, moreVars, users, products, sales, recVars, df>>

NextFE ==
    \/ InsertProduct
    \/ \E u \in UserIds, amount \in Amounts, date \in SaleDates :
          InsertSale(u, AnyProduct, amount, date)
    \/ FE_LoadData
    \/ FE_EngineerFeatures
    \/ FE_PreprocessData

SpecFE == Init /\ [][NextFE]_vars

\* ------------------------------------------------------ model registry
ProductionStage == "Production"
\* the stage mlflow.register_model leaves a new version in
NoStage == "None"

StageVersions(reg, name, stage) == {v \in reg : v.name = name /\ v.stage = stage}

LatestVersion(vs) == CHOOSE v \in vs : \A w \in vs : w.version <= v.version

NextVersion(reg, name) ==
    Cardinality({v \in reg : v.name = name}) + 1

\* load_model(model_name, stage): mlflow.pyfunc.load_model("models:/<name>/<stage>")
\* resolves the latest version of the name in the stage and fetches its
\* artifact. TRUE: a model is returned; FALSE: the except branch raises
\* HTTPException(status_code=500, detail="Model loading failed: ...")
LoadModel(reg, name, stage) ==
    /\ StageVersions(reg, name, stage) # {}
    /\ LatestVersion(StageVersions(reg, name, stage)).artifact

\* the registries the API may start against: for any of the two names, a
\* version an operator promoted to Production
InitialRegistries ==
    {{ModelVersion(name, 1, ProductionStage, TRUE) : name \in S} : S \in SUBSET ModelNames}

\* ChurnModelTrainer.register_best_model(tuned_model, "churn_prediction_model"),
\* the last statement of the churn job: run_id is None, so the model is logged
\* under the artifact path "churn_prediction_model" and the version is
\* registered from "runs:/<run>/recommendation_model", a path that run does
\* not hold; no stage transition follows
RegisterBestModel ==
    /\ jobs["churn"] = "idle"
    /\ registry' = registry \cup
          {ModelVersion(ChurnModelName, NextVersion(registry, ChurnModelName),
                        NoStage, FALSE)}
    /\ jobs' = [jobs EXCEPT !["churn"] = "done"]
    /\ UNCHANGED <<request, response, dagVars, split, moreVars, users, products, sales, recVars, feVars>>

\* the end of the recommendation job: mlflow.sklearn.log_model(algo,
\* 'recommendation_model') and mlflow.register_model("runs:/<run>/recommendation_model",
\* "product_recommendation_model"); no stage transition follows
RegisterRecommendationModel ==
    /\ jobs["recommendation"] = "idle"
    /\ registry' = registry \cup
          {ModelVersion(RecommendationModelName,
                        NextVersion(registry, RecommendationModelName), NoStage, TRUE)}
    /\ jobs' = [jobs EXCEPT !["recommendation"] = "done"]
    /\ UNCHANGED <<request, response, dagVars, split, moreVars, users, products, sales, recVars, feVars>>

\* the model a training job publishes
JobModel(j) == IF j = "churn" THEN ChurnModelName ELSE RecommendationModelName

\* ------------------------------------------------------ prediction API
\* the status of a returned response, of HTTPException(status_code=404 / 500)
\* and of a request body pydantic rejects
HttpOk == 200
HttpNotFound == 404
HttpUnprocessable == 422
HttpServerError == 500

\* max_recommendations: int = Field(5, ge=1, le=20)
MinRecommendations == 1
MaxRecommendations == 20

\* class UserData: the fields of a user record of POST /predict/churn
UserDataFields ==
    {"user_id", "age", "country", "total_orders", "total_spent",
     "days_since_last_order", "avg_order_value", "customer_duration_days",
     "order_frequency", "daily_spend"}

\* a user record of a request body: the fields it carries and its user_id
\* (0 when it carries none)
UserRecord(u, fields) ==
    [user_id |-> IF "user_id" \in fields THEN u ELSE 0, fields |-> fields]

\* the record shapes tried: a UserData record, one lacking a field, the nine
\* training features, and eight of them
RecordShapes ==
    {UserDataFields, UserDataFields \ {"daily_spend"}, TrainingFeatures,
     TrainingFeatures \ {"country_encoded"}}

Records == {UserRecord(u, fields) : u \in UserIds, fields \in RecordShapes}

\* request bodies of POST /predict/churn: lists of at most MaxRecords records
ChurnRequests ==
    UNION {[1..k -> Records] : k \in 0..MaxRecords}

\* pydantic validation of a UserData (fields it does not declare are ignored)
ValidUserData(rec) == UserDataFields \subseteq rec.fields

\* pd.DataFrame([user.model_dump() for user in request.users]): its columns
FrameColumns(us) == IF Len(us) = 0 THEN {} ELSE UserDataFields

\* model.predict(features_df): the estimator was fitted on the nine training
\* columns and raises on a frame of other columns
ModelAccepts(columns) == columns = TrainingFeatures

\* model.predict_proba: mlflow.pyfunc.load_model returns a PyFuncModel, which
\* has predict and no predict_proba (AttributeError)
HasPredictProba == FALSE

\* model.predict(request.user_id, product_id).est: a PyFuncModel takes
\* predict(data, params) and does not answer a surprise Prediction
PredictsPair == FALSE

\* probabilities predict_proba(...)[:, 1] may hold, and the class predict gives
ProbVals == {0, Unit \div 2, Unit \div 2 + 1, Unit}
Label(prob) == IF prob > Unit \div 2 THEN 1 ELSE 0

Answer(status, detail) == [NoResponse EXCEPT !.status = status, !.detail = detail]

\* ChurnPredictionResponse(user_id, churn_probability, will_churn=predictions[i] > 0.5)
ChurnPredictionResponse(user, probability, prediction) ==
    [user_id |-> user.user_id, churn_probability |-> probability,
     will_churn |-> prediction * Unit > Unit \div 2]

\* predict_churn: the answers it can give to a request body
ChurnOutcomes(reg, us) ==
    IF \E i \in DOMAIN us : ~ValidUserData(us[i])
    THEN {Answer(HttpUnprocessable, "validation")}
    ELSE IF ~LoadModel(reg, ChurnModelName, ProductionStage)
    THEN {Answer(HttpServerError, "Prediction failed: Model loading failed")}
    ELSE IF ~ModelAccepts(FrameColumns(us)) \/ ~HasPredictProba
    THEN {Answer(HttpServerError, "Prediction failed")}
    ELSE {[Answer(HttpOk, "") EXCEPT
             !.results = [i \in DOMAIN us |->
                 ChurnPredictionResponse(us[i], probabilities[i], Label(probabilities[i]))]]
          : probabilities \in [DOMAIN us -> ProbVals]}

\* POST /predict/churn
PredictChurn(us) ==
    /\ request' = [NoRequest EXCEPT !.endpoint = "churn", !.users = us]
    /\ response' \in ChurnOutcomes(registry, us)
    /\ UNCHANGED <<registry, jobs, dagVars, split, moreVars, users, products, sales, recVars, feVars>>

\* a user id no row of users carries
UnknownUser == NumUsers + 1
RequestUserIds == UserIds \cup {UnknownUser}

\* max_recommendations values tried: in range, below and above it
RequestNs == Ns \cup {MinRecommendations - 1, MaxRecommendations + 1}

\* SELECT product_id, COUNT(*) FROM sales WHERE user_id = ... GROUP BY product_id
UserInteractions(s, uid) == {r.product_id : r \in SalesOf(s, uid)}

\* the products the loop of recommend_products predicts a score for
Candidates(ps, s, uid) == ps \ UserInteractions(s, uid)

\* recommendations.sort(key=score, reverse=True)[:max_recommendations] over the
\* candidates in table order
TopRecommendations(candidates, est, n) ==
    LET ids == SortedIds(candidates)
    IN Prefix(SortByScoreDesc([i \in DOMAIN ids |-> Rec(ids[i], est[ids[i]])]), n)

\* recommend_products: the answers it can give
RecommendOutcomes(reg, ps, s, uid, n) ==
    IF n < MinRecommendations \/ n > MaxRecommendations
    THEN {Answer(HttpUnprocessable, "validation")}
    ELSE IF ~LoadModel(reg, RecommendationModelName, ProductionStage)
    THEN {Answer(HttpServerError, "Recommendation failed: Model loading failed")}
    ELSE IF Candidates(ps, s, uid) # {} /\ ~PredictsPair
    THEN {Answer(HttpServerError, "Recommendation failed")}
    ELSE {[Answer(HttpOk, "") EXCEPT
             !.user_id = uid,
             !.results = TopRecommendations(Candidates(ps, s, uid), est, n)]
          : est \in [Candidates(ps, s, uid) -> EstVals]}

\* POST /recommend/products
RecommendProducts(uid, n) ==
    /\ request' = [NoRequest EXCEPT !.endpoint = "recommend", !.user_id = uid, !.n = n]
    /\ response' \in RecommendOutcomes(registry, products, sales, uid, n)
    /\ UNCHANGED <<registry, jobs, dagVars, split, moreVars, users, products, sales, recVars, feVars>>

\* the user_metrics row of get_user_features for one user
UserFeatureRow(u, s) ==
    LET none == SalesOf(s, u.user_id) = {}
        duration == IF none THEN NaN ELSE Num(DaysSince(FirstDate(s, u.user_id)))
    IN [user_id |-> u.user_id, country |-> u.country, age |-> u.age,
        total_orders |-> Num(CountSales(s, u.user_id)),
        total_spent |-> Num(SumAmount(s, u.user_id)),
        first_order_date |-> IF none THEN NaN ELSE Num(FirstDate(s, u.user_id)),
        last_order_date |-> IF none THEN NaN ELSE Num(LastDate(s, u.user_id)),
        days_since_last_order |->
            IF none THEN NaN ELSE Num(DaysSince(LastDate(s, u.user_id))),
        avg_order_value |->
            IF none THEN Num(0)
            ELSE Num(FDiv(SumAmount(s, u.user_id) * Unit, CountSales(s, u.user_id))),
        customer_duration_days |-> duration,
        order_frequency |->
            IF IsNum(duration) /\ duration.v > 0
            THEN Num(FDiv(CountSales(s, u.user_id) * Unit, duration.v)) ELSE Num(0),
        daily_spend |->
            IF IsNum(duration) /\ duration.v > 0
            THEN Num(FDiv(SumAmount(s, u.user_id) * Unit, duration.v)) ELSE Num(0)]

\* ... WHERE u.user_id = {user_id} GROUP BY ...: the frame read_sql_query returns
UserFeaturesQuery(us, s, uid) ==
    {UserFeatureRow(u, s) : u \in {x \in us : x.user_id = uid}}

\* get_user_features: "raise HTTPException(status_code=404)" stands inside the
\* try block, HTTPException is an Exception, and the handler of "except
\* Exception" raises HTTPException(status_code=500) in its place
UserFeaturesOutcome(us, s, uid) ==
    IF UserFeaturesQuery(us, s, uid) = {}
    THEN Answer(HttpServerError, "Failed to get user features: 404: User not found")
    ELSE [Answer(HttpOk, "") EXCEPT
            !.row = CHOOSE r \in UserFeaturesQuery(us, s, uid) : TRUE]

\* GET /users/{user_id}/features
GetUserFeatures(uid) ==
    /\ request' = [NoRequest EXCEPT !.endpoint = "features", !.user_id = uid]
    /\ response' = UserFeaturesOutcome(users, sales, uid)
    /\ UNCHANGED <<registry, jobs, dagVars, split, moreVars, users, products, sales, recVars, feVars>>

\* health_check with the status following the models
HealthStatus_ByModels(reg) ==
    IF \A name \in ModelNames : LoadModel(reg, name, ProductionStage)
    THEN HttpOk ELSE HttpServerError

\* health_check: both load attempts stand in their own try block, the
\* response is built after them
HealthStatus(reg) == HttpOk

\* model_status[...] = "available" or f"error: {str(e)}"
ModelStatus(reg, name) ==
    IF LoadModel(reg, name, ProductionStage) THEN "available"
    ELSE "error: 500: Model loading failed"

\* GET /health
HealthCheck ==
    /\ request' = [NoRequest EXCEPT !.endpoint = "health"]
    /\ response' =
          [Answer(HealthStatus(registry), "healthy") EXCEPT
             !.model_status =
                 [churn_model |-> ModelStatus(registry, ChurnModelName),
                  recommendation_model |-> ModelStatus(registry, RecommendationModelName)]]
    /\ UNCHANGED <<registry, jobs, dagVars, split, moreVars, users, products, sales, recVars, feVars>>

InitAPI ==
    /\ registry \in InitialRegistries
    /\ db_up = {}
    /\ InitRest

NextAPI ==
    \/ InsertProduct
    \/ \E u \in UserIds : InsertSale(u, AnyProduct, DefaultAmount, DefaultDate)
    \/ RegisterBestModel
    \/ RegisterRecommendationModel
    \/ HealthCheck
    \/ \E us \in ChurnRequests : PredictChurn(us)
    \/ \E uid \in RequestUserIds, n \in RequestNs : RecommendProducts(uid, n)
    \/ \E uid \in RequestUserIds : GetUserFeatures(uid)

SpecAPI == InitAPI /\ [][NextAPI]_vars

\* ------------------------------------------------------ ingestion DAGs
\* default_args: 'retries': 1
Retries == 1

Tasks(d) == DOMAIN Chain(d)

\* a task that waits for its upstream task to finish, whatever the outcome
TaskReady_AllDone(d, i) ==
    IF i = 1 THEN TRUE
    ELSE task_state[d][i - 1] \in {"success", "failed", "upstream_failed"}

\* a >> b with the default trigger rule: b is scheduled once a has succeeded
TaskReady(d, i) == IF i = 1 THEN TRUE ELSE task_state[d][i - 1] = "success"

\* the scheduler starts a task instance (first try or retry)
StartTask(d, i) ==
    /\ task_state[d][i] \in {"none", "up_for_retry"}
    /\ TaskReady(d, i)
    /\ task_state' = [task_state EXCEPT ![d][i] = "running"]
    /\ try_number' = [try_number EXCEPT ![d][i] = @ + 1]
    /\ UNCHANGED <<apiVars, split, moreVars, users, products, sales, recVars, feVars>>

\* the python_callable returns
TaskSucceeds(d, i) ==
    /\ task_state[d][i] = "running"
    /\ task_state' = [task_state EXCEPT ![d][i] = "success"]
    /\ UNCHANGED <<try_number, apiVars, split, moreVars, users, products, sales, recVars, feVars>>

\* the python_callable raises (a failed assertion of the quality checks, a
\* file or a database that is not there): retried while tries are left
TaskFails(d, i) ==
    /\ task_state[d][i] = "running"
    /\ task_state' =
          [task_state EXCEPT
             ![d][i] = IF try_number[d][i] <= Retries THEN "up_for_retry" ELSE "failed"]
    /\ UNCHANGED <<try_number, apiVars, split, moreVars, users, products, sales, recVars, feVars>>

\* a task whose upstream task failed is never run: it is marked upstream_failed
MarkUpstreamFailed(d, i) ==
    /\ i > 1
    /\ task_state[d][i] = "none"
    /\ task_state[d][i - 1] \in {"failed", "upstream_failed"}
    /\ task_state' = [task_state EXCEPT ![d][i] = "upstream_failed"]
    /\ UNCHANGED <<try_number, apiVars, split, moreVars, users, products, sales, recVars, feVars>>

NextDAG ==
    \/ \E d \in Dags : \E i \in Tasks(d) : StartTask(d, i)
    \/ \E d \in Dags : \E i \in Tasks(d) : TaskSucceeds(d, i)
    \/ \E d \in Dags : \E i \in Tasks(d) : TaskFails(d, i)
    \/ \E d \in Dags : \E i \in Tasks(d) : MarkUpstreamFailed(d, i)

SpecDAG == Init /\ [][NextDAG]_vars

\* ------------------------------------- collaborative filtering: training
\* the variables of the first sections
baseVars == <<users, products, sales, recVars, feVars, apiVars, dagVars>>

\* cross_validate(algo, data, measures=['RMSE', 'MAE'], cv=3, verbose=True)
CvFolds == 3

\* the interaction frames the method is called with: one row per
\* (user_id, product_id) pair of the frame
InteractionFrames ==
    {{[user_id |-> k[1], product_id |-> k[2], interaction_count |-> 1] : k \in S}
     : S \in SUBSET (UserIds \X ProductIds)}

\* collaborative_filtering(interactions): no statement of the method is in a
\* try block and the module defines no exception class. cross_validate makes
\* a KFold of cv splits, which raises ValueError for a dataset of fewer ratings
\* than splits; any other dataset is fitted, one user or one product included
TrainingOutcome(rows) ==
    IF Cardinality(rows) < CvFolds THEN "ValueError" ELSE "trained"

CollaborativeFiltering(rows) ==
    /\ cf_interactions' = rows
    /\ cf_result' = TrainingOutcome(rows)
    /\ UNCHANGED <<baseVars, split, concVars, trainerVars, genVars, loadVars, connVars>>

NextCF == \E rows \in InteractionFrames : CollaborativeFiltering(rows)

SpecCF == Init /\ [][NextCF]_vars

\* ------------------------------------------- prediction API: concurrency
\* the requests sent while others are being handled: one per endpoint, of the
\* shape pydantic accepts, and a features request for a user that is not there
ConcurrentRequests ==
    {[NoRequest EXCEPT !.endpoint = "churn", !.users = <<UserRecord(1, UserDataFields)>>],
     [NoRequest EXCEPT !.endpoint = "recommend", !.user_id = 1, !.n = MinRecommendations],
     [NoRequest EXCEPT !.endpoint = "features", !.user_id = 1],
     [NoRequest EXCEPT !.endpoint = "features", !.user_id = UnknownUser],
     [NoRequest EXCEPT !.endpoint = "health"]}

\* the model a handler loads first
FirstModel(endpoint) ==
    IF endpoint \in {"churn", "health"} THEN ChurnModelName ELSE RecommendationModelName

\* a handler that takes the model another running handler holds, if there is one
FetchModel_Shared(slots, slot, name) ==
    IF \E other \in DOMAIN slots : other # slot /\ slots[other].model \in ModelNames
    THEN slots[CHOOSE other \in DOMAIN slots :
                  other # slot /\ slots[other].model \in ModelNames].model
    ELSE IF LoadModel(registry, name, ProductionStage) THEN name ELSE "failed"

\* model = load_model(name, "Production"): every handler loads for itself, from
\* the registry; the module keeps no model between requests
FetchModel(slots, slot, name) ==
    IF LoadModel(registry, name, ProductionStage) THEN name ELSE "failed"

\* the handler stops with an answer
Finish(slot, answer) ==
    inflight' = [inflight EXCEPT ![slot].pc = "done", ![slot].response = answer]

\* a request arrives and its handler starts
Receive(slot, req) ==
    /\ inflight[slot].pc = "idle"
    /\ inflight' = [inflight EXCEPT
                      ![slot] = [Idle EXCEPT
                                   !.request = req,
                                   !.pc = IF req.endpoint = "features"
                                          THEN "query" ELSE "load"]]
    /\ UNCHANGED <<baseVars, split, cfVars, trainerVars, genVars, loadVars, connVars>>

\* the first load_model call of predict_churn, recommend_products and
\* health_check
LoadStep(slot) ==
    /\ inflight[slot].pc = "load"
    /\ \E endpoint \in {inflight[slot].request.endpoint},
          m \in {FetchModel(inflight, slot, FirstModel(inflight[slot].request.endpoint))} :
          IF endpoint = "health"
          THEN inflight' =
                  [inflight EXCEPT
                     ![slot].pc = "load2",
                     ![slot].response.model_status =
                         [churn_model |->
                             IF m = "failed" THEN "error: 500: Model loading failed"
                             ELSE "available"]]
          ELSE IF m = "failed"
          THEN Finish(slot, Answer(HttpServerError,
                     IF endpoint = "churn"
                     THEN "Prediction failed: Model loading failed"
                     ELSE "Recommendation failed: Model loading failed"))
          ELSE inflight' =
                  [inflight EXCEPT
                     ![slot].model = m,
                     ![slot].pc = IF endpoint = "churn" THEN "predict" ELSE "interactions"]
    /\ UNCHANGED <<baseVars, split, cfVars, trainerVars, genVars, loadVars, connVars>>

\* the second load_model call of health_check, and its return
LoadStep2(slot) ==
    /\ inflight[slot].pc = "load2"
    /\ \E m \in {FetchModel(inflight, slot, RecommendationModelName)} :
          Finish(slot,
                 [Answer(HttpOk, "healthy") EXCEPT
                    !.model_status =
                        [churn_model |-> inflight[slot].response.model_status.churn_model,
                         recommendation_model |->
                             IF m = "failed" THEN "error: 500: Model loading failed"
                             ELSE "available"]])
    /\ UNCHANGED <<baseVars, split, cfVars, trainerVars, genVars, loadVars, connVars>>

\* recommend_products: the query of the user's interactions
QueryInteractions(slot) ==
    /\ inflight[slot].pc = "interactions"
    /\ inflight' =
          [inflight EXCEPT
             ![slot].interacted_products =
                 UserInteractions(sales, inflight[slot].request.user_id),
             ![slot].pc = "products"]
    /\ UNCHANGED <<baseVars, split, cfVars, trainerVars, genVars, loadVars, connVars>>

\* recommend_products: the query of the products
QueryProducts(slot) ==
    /\ inflight[slot].pc = "products"
    /\ inflight' = [inflight EXCEPT ![slot].products_df = products,
                                    ![slot].pc = "predict"]
    /\ UNCHANGED <<baseVars, split, cfVars, trainerVars, genVars, loadVars, connVars>>

\* the rest of predict_churn and of recommend_products: the calls of the model
\* the handler holds, and the response
PredictStep(slot) ==
    /\ inflight[slot].pc = "predict"
    /\ \E req \in {inflight[slot].request},
          candidates \in {inflight[slot].products_df \ inflight[slot].interacted_products} :
          IF req.endpoint = "churn"
          THEN IF \/ inflight[slot].model # ChurnModelName
                  \/ ~ModelAccepts(FrameColumns(req.users))
                  \/ ~HasPredictProba
               THEN Finish(slot, Answer(HttpServerError, "Prediction failed"))
               ELSE \E probabilities \in [DOMAIN req.users -> ProbVals] :
                       Finish(slot,
                              [Answer(HttpOk, "") EXCEPT
                                 !.results =
                                     [i \in DOMAIN req.users |->
                                        ChurnPredictionResponse(
                                            req.users[i], probabilities[i],
                                            Label(probabilities[i]))]])
          ELSE IF candidates # {}
                  /\ (inflight[slot].model # RecommendationModelName \/ ~PredictsPair)
               THEN Finish(slot, Answer(HttpServerError, "Recommendation failed"))
               ELSE \E est \in [candidates -> EstVals] :
                       Finish(slot,
                              [Answer(HttpOk, "") EXCEPT
                                 !.user_id = req.user_id,
                                 !.results = TopRecommendations(candidates, est, req.n)])
    /\ UNCHANGED <<baseVars, split, cfVars, trainerVars, genVars, loadVars, connVars>>

\* get_user_features: its one query, and the response
QueryFeatures(slot) ==
    /\ inflight[slot].pc = "query"
    /\ Finish(slot, UserFeaturesOutcome(users, sales, inflight[slot].request.user_id))
    /\ UNCHANGED <<baseVars, split, cfVars, trainerVars, genVars, loadVars, connVars>>

\* the response was sent: the handler's locals are gone
Close(slot) ==
    /\ inflight[slot].pc = "done"
    /\ inflight' = [inflight EXCEPT ![slot] = Idle]
    /\ UNCHANGED <<baseVars, split, cfVars, trainerVars, genVars, loadVars, connVars>>

NoneInFlight == \A slot \in Slots : inflight[slot].pc = "idle"

\* a step of a handler
HandlerStep(slot) ==
    \/ LoadStep(slot)
    \/ LoadStep2(slot)
    \/ QueryInteractions(slot)
    \/ QueryProducts(slot)
    \/ PredictStep(slot)
    \/ QueryFeatures(slot)

\* the registry and the warehouse are filled while no request is in flight,
\* and stay as they are while one is
NextConcurrent ==
    \/ NoneInFlight /\ InsertProduct
    \/ NoneInFlight /\ \E u \in UserIds : InsertSale(u, AnyProduct, DefaultAmount, DefaultDate)
    \/ \E slot \in Slots, req \in ConcurrentRequests : Receive(slot, req)
    \/ \E slot \in Slots : LoadStep(slot)
    \/ \E slot \in Slots : LoadStep2(slot)
    \/ \E slot \in Slots : QueryInteractions(slot)
    \/ \E slot \in Slots : QueryProducts(slot)
    \/ \E slot \in Slots : PredictStep(slot)
    \/ \E slot \in Slots : QueryFeatures(slot)
    \/ \E slot \in Slots : Close(slot)

SpecConcurrent == InitAPI /\ [][NextConcurrent]_vars

\* ------------------------------------------------------- churn trainer
\* the two ChurnModelTrainer classes: local_env/mlflow/churn_prediction/train.py
\* and local_env/mlflow/churn_prediction/main.py
TrainerImpls == {"train.py", "main.py"}

\* models = {...}: the candidates in the order the dict is gone through; a
\* fitted estimator is known by its family
ModelOrder == <<"Logistic_Regression", "Random_Forest", "Gradient_Boosting">>

\* held-out ROC AUC values: 0, 0.5, 0.8 and 1
AucVals == {0, Unit \div 2, (4 * Unit) \div 5, Unit}

\* best_score = 0; best_model = None; best_model_name = ""
InitialBest == [model |-> None, name |-> "", score |-> 0]

\* if roc_auc > best_score
Better(roc_auc, best_score) == roc_auc > best_score

\* the loop of train_models after its first k candidates
RECURSIVE BestAfter(_, _)
BestAfter(k, scores) ==
    IF k = 0 THEN InitialBest
    ELSE LET best == BestAfter(k - 1, scores)
         IN IF Better(scores[k], best.score)
            THEN [model |-> ModelOrder[k], name |-> ModelOrder[k], score |-> scores[k]]
            ELSE best

\* a trainer that never sets its champion fields
KeepsChampion_Never(impl) == FALSE

\* self.champion_name / self.champion_model: fields of the class in main.py only
KeepsChampion(impl) == impl = "main.py"

\* trainer = ChurnModelTrainer()
NewTrainer(impl) ==
    /\ trainer_impl = "none"
    /\ trainer_impl' = impl
    /\ champion_name' = None
    /\ champion_model' = None
    /\ UNCHANGED <<train_result, tune_result>>
    /\ UNCHANGED <<baseVars, split, cfVars, concVars, genVars, loadVars, connVars>>

\* train_models(...), the candidates reaching the held-out scores given
TrainModels(scores) ==
    /\ trainer_impl \in TrainerImpls
    /\ \E best \in {BestAfter(Len(ModelOrder), scores)} :
          /\ train_result' = [err |-> "none", scores |-> scores, model |-> best.model,
                              name |-> best.name, score |-> best.score]
          /\ IF KeepsChampion(trainer_impl)
             THEN /\ champion_name' = best.name
                  /\ champion_model' = best.model
             ELSE UNCHANGED <<champion_name, champion_model>>
    /\ UNCHANGED <<trainer_impl, tune_result>>
    /\ UNCHANGED <<baseVars, split, cfVars, concVars, genVars, loadVars, connVars>>

\* train_models leaves its loop by an exception (model.fit or roc_auc_score
\* raising on the data): the statements after the loop are not reached
TrainModelsRaises ==
    /\ trainer_impl \in TrainerImpls
    /\ train_result.err # "ValueError"
    /\ train_result' = [train_result EXCEPT !.err = "ValueError"]
    /\ UNCHANGED <<trainer_impl, champion_name, champion_model, tune_result>>
    /\ UNCHANGED <<baseVars, split, cfVars, concVars, genVars, loadVars, connVars>>

\* param_grid of hyperparameter_tuning
ParamGrid == {"n_estimators", "max_depth", "min_samples_split", "min_samples_leaf"}

\* the parameters of the grid an estimator family has
GridParamsOf(family) ==
    IF family \in {"Random_Forest", "Gradient_Boosting"} THEN ParamGrid ELSE {}

\* GridSearchCV(rf, param_grid, ...).fit: set_params raises ValueError for a
\* parameter the estimator does not have, and None is no estimator
SearchOutcome(rf) ==
    IF rf = None THEN "InvalidParameterError"
    ELSE IF ParamGrid \subseteq GridParamsOf(rf) THEN "none" ELSE "ValueError"

\* what train_models last returned to the caller, None if it never returned
LastSelected == IF train_result.name = None THEN None ELSE train_result.model

\* hyperparameter_tuning(X_train, y_train). train.py: a new
\* RandomForestClassifier is searched under the run name
\* "Random_Forest_Tuning". main.py: self.champion_name + "_Tuning" comes
\* first (TypeError on None), the estimator searched is self.champion_model
TuningOutcome(impl, name, model, selected) ==
    IF impl = "train.py"
    THEN [err |-> SearchOutcome("Random_Forest"), after |-> selected,
          searched |-> "Random_Forest", run_name |-> "Random_Forest_Tuning"]
    ELSE IF name = None
    THEN [err |-> "TypeError", after |-> selected, searched |-> None, run_name |-> None]
    ELSE [err |-> SearchOutcome(model), after |-> selected, searched |-> model,
          run_name |-> <<name, "_Tuning">>]

HyperparameterTuning ==
    /\ trainer_impl \in TrainerImpls
    /\ tune_result' =
          TuningOutcome(trainer_impl, champion_name, champion_model, LastSelected)
    /\ UNCHANGED <<trainer_impl, champion_name, champion_model, train_result>>
    /\ UNCHANGED <<baseVars, split, cfVars, concVars, genVars, loadVars, connVars>>

NextTrainer ==
    \/ \E impl \in TrainerImpls : NewTrainer(impl)
    \/ \E scores \in [DOMAIN ModelOrder -> AucVals] : TrainModels(scores)
    \/ TrainModelsRaises
    \/ HyperparameterTuning

SpecTrainer == Init /\ [][NextTrainer]_vars

\* ------------------------------------- data generator and quality checks
\* np.random.randint(low, high): an integer from low to high - 1
RandInt(low, high) == low..(high - 1)

\* the draws tried: the least and the greatest of the values a call can give
Ends(S) == {MinOf(S), MaxOf(S)}

\* age = np.random.randint(18, 80)
AgeLow == 18
AgeHigh == 80
\* price = round(np.random.uniform(5, 500), 2)
PriceLow == 5
PriceHigh == 500
\* quantity = np.random.randint(1, 5), and the factor of sale_amount
QuantityLow == 1
QuantityHigh == 5

\* fake.email(): any address, the same one twice included
EmailAssignments_Repeating(n) ==
    [1..n -> {ToString(i) \o "@example.org" : i \in 1..n}]

\* fake.unique.email(): an address this Faker did not hand out before
EmailAssignments(n) ==
    {e \in [1..n -> {ToString(i) \o "@example.org" : i \in 1..n}] :
        \A i, j \in 1..n : i # j => e[i] # e[j]}

\* fake.word().capitalize() + ' ' + fake.word(): two words and a blank; the pair
\* nearest to a text read_csv takes for a missing value
ProductNames == {"None null"}

\* generate_users(n)
GeneratedUsers(n) ==
    {[i \in 1..n |-> [user_id |-> i, email |-> email[i], age |-> age[i]]]
     : email \in EmailAssignments(n),
       age \in [1..n -> Ends(RandInt(AgeLow, AgeHigh))]}

\* generate_products(n)
GeneratedProducts(n) ==
    {[i \in 1..n |-> [product_id |-> i, name |-> name[i], price |-> price[i]]]
     : name \in [1..n -> ProductNames],
       price \in [1..n -> {PriceLow, PriceHigh}]}

\* one row of generate_sales: users_df.sample(1), products_df.sample(1) and
\* the two draws
GeneratedSale(us, ps, i) ==
    {[sale_id |-> i, user_id |-> us[u].user_id, product_id |-> ps[p].product_id,
      quantity |-> quantity, sale_amount |-> ps[p].price * factor]
     : u \in DOMAIN us, p \in DOMAIN ps,
       quantity \in Ends(RandInt(QuantityLow, QuantityHigh)),
       factor \in Ends(RandInt(QuantityLow, QuantityHigh))}

\* generate_sales(users_df, products_df, n)
GeneratedSales(us, ps, n) ==
    {q \in [1..n -> UNION {GeneratedSale(us, ps, i) : i \in 1..n}] :
        \A i \in 1..n : q[i].sale_id = i}

GenerateUsers ==
    /\ gen_pc = "start"
    /\ users_df' \in GeneratedUsers(GenUsers)
    /\ gen_pc' = "users"
    /\ UNCHANGED <<products_df, sales_df, csv, check_result>>
    /\ UNCHANGED <<baseVars, split, cfVars, concVars, trainerVars, loadVars, connVars>>

GenerateProducts ==
    /\ gen_pc = "users"
    /\ products_df' \in GeneratedProducts(GenProducts)
    /\ gen_pc' = "products"
    /\ UNCHANGED <<users_df, sales_df, csv, check_result>>
    /\ UNCHANGED <<baseVars, split, cfVars, concVars, trainerVars, loadVars, connVars>>

GenerateSales ==
    /\ gen_pc = "products"
    /\ sales_df' \in GeneratedSales(users_df, products_df, GenSales)
    /\ gen_pc' = "sales"
    /\ UNCHANGED <<users_df, products_df, csv, check_result>>
    /\ UNCHANGED <<baseVars, split, cfVars, concVars, trainerVars, loadVars, connVars>>

\* DataFrame.to_csv(path, index=False): a row of text cells per row
ToCsv(frame) ==
    [i \in DOMAIN frame |->
        [c \in DOMAIN frame[i] |->
            IF c \in {"email", "name"} THEN frame[i][c] ELSE ToString(frame[i][c])]]

\* the three to_csv calls of main()
WriteCsv ==
    /\ gen_pc = "sales"
    /\ csv' = [users |-> [exists |-> TRUE, rows |-> ToCsv(users_df)],
               products |-> [exists |-> TRUE, rows |-> ToCsv(products_df)],
               sales |-> [exists |-> TRUE, rows |-> ToCsv(sales_df)]]
    /\ gen_pc' = "written"
    /\ UNCHANGED <<users_df, products_df, sales_df, check_result>>
    /\ UNCHANGED <<baseVars, split, cfVars, concVars, trainerVars, loadVars, connVars>>

\* pd.read_csv: the texts it reads as a missing value
NaStrings == {"", "NA", "N/A", "NULL", "NaN", "None", "n/a", "nan", "null", "<NA>"}

\* a text cell
Str(x) == [k |-> "str", v |-> x]

\* the numbers a file of the generator can hold
CsvNumbers ==
    (1..GenSales) \cup (1..GenUsers) \cup (1..GenProducts)
    \cup RandInt(QuantityLow, QuantityHigh) \cup Ends(RandInt(AgeLow, AgeHigh))
    \cup {price * factor : price \in {PriceLow, PriceHigh},
                           factor \in {1} \cup RandInt(QuantityLow, QuantityHigh)}

\* pd.read_csv on a cell: a missing value, a number or a text
ReadCell(text) ==
    IF text \in NaStrings THEN NaN
    ELSE IF \E n \in CsvNumbers : ToString(n) = text
    THEN Num(CHOOSE n \in CsvNumbers : ToString(n) = text)
    ELSE Str(text)

ReadCsv(file) ==
    [i \in DOMAIN file.rows |-> [c \in DOMAIN file.rows[i] |-> ReadCell(file.rows[i][c])]]

\* not df[c].isnull().any()
NotNull(frame, c) == \A i \in DOMAIN frame : frame[i][c] # NaN

\* df[c].is_unique
IsUnique(frame, c) ==
    \A i, j \in DOMAIN frame : i # j => frame[i][c] # frame[j][c]

\* df[c].between(low, high).all(): both ends count, a missing value is outside
Between(frame, c, low, high) ==
    \A i \in DOMAIN frame :
        /\ IsNum(frame[i][c])
        /\ low <= frame[i][c].v
        /\ frame[i][c].v <= high

\* the bounds the checks assert
CheckAgeLow == 18
CheckAgeHigh == 80
CheckPriceLow == 1
CheckPriceHigh == 1000
CheckQuantityLow == 1
CheckQuantityHigh == 10

\* check_users_data: the assertion on unique emails stands in the script of
\* data_engineering and is commented out in the DAG file of local_env
CheckUsersData(version, frame) ==
    /\ NotNull(frame, "user_id")
    /\ NotNull(frame, "email")
    /\ IsUnique(frame, "user_id")
    /\ version = "data_engineering" => IsUnique(frame, "email")
    /\ Between(frame, "age", CheckAgeLow, CheckAgeHigh)

CheckProductsData(frame) ==
    /\ NotNull(frame, "product_id")
    /\ NotNull(frame, "name")
    /\ IsUnique(frame, "product_id")
    /\ Between(frame, "price", CheckPriceLow, CheckPriceHigh)

CheckSalesData(frame) ==
    /\ NotNull(frame, "sale_id")
    /\ NotNull(frame, "user_id")
    /\ NotNull(frame, "product_id")
    /\ IsUnique(frame, "sale_id")
    /\ Between(frame, "quantity", CheckQuantityLow, CheckQuantityHigh)

\* main() of data_quality_checks.py / data_quality_checks() of the DAG file:
\* the three files are read and checked; a failed assert raises AssertionError
DataQualityChecks(version) ==
    /\ gen_pc = "written"
    /\ check_result[version] = NotCalled
    /\ check_result' =
          [check_result EXCEPT
             ![version] =
                 IF /\ CheckUsersData(version, ReadCsv(csv.users))
                    /\ CheckProductsData(ReadCsv(csv.products))
                    /\ CheckSalesData(ReadCsv(csv.sales))
                 THEN "passed" ELSE "AssertionError"]
    /\ UNCHANGED <<gen_pc, users_df, products_df, sales_df, csv>>
    /\ UNCHANGED <<baseVars, split, cfVars, concVars, trainerVars, loadVars, connVars>>

\* ------------------------------------------------------ warehouse loaders
\* create_tables(engine): metadata.create_all creates the tables that are not
\* there, with their primary keys, the unique email and the foreign keys of
\* sales
CreateTables(tables) ==
    [t \in TableNames |->
        IF tables[t].exists THEN tables[t]
        ELSE [exists |-> TRUE, keys |-> TRUE, rows |-> <<>>]]

\* Column(..., primary_key=True) and Column('email', String, unique=True)
UniqueColumns(t) ==
    IF t = "users" THEN {"user_id", "email"}
    ELSE IF t = "products" THEN {"product_id"} ELSE {"sale_id"}

\* ForeignKey('users.user_id') and ForeignKey('products.product_id') of sales:
\* the table is referenced by a table that exists with its keys
Referenced(tables, t) ==
    /\ t \in {"users", "products"}
    /\ tables["sales"].exists
    /\ tables["sales"].keys

\* a table whose unique columns hold no value twice
KeysHold(t, rows) ==
    \A c \in UniqueColumns(t) :
        \A i, j \in DOMAIN rows : i # j => rows[i][c] # rows[j][c]

\* frame.to_sql(t, engine, if_exists=..., index=False). replace: an existing
\* table is dropped by DROP TABLE, which the database refuses for a table a
\* foreign key refers to, and a table of the frame's columns, without keys,
\* is created and filled. append: the rows are inserted in one transaction,
\* which a duplicate of a unique column rolls back
ToSql(tables, t, frame, if_exists) ==
    IF ~tables[t].exists
    THEN [err |-> "none",
          tables |-> [tables EXCEPT ![t] = [exists |-> TRUE, keys |-> FALSE, rows |-> frame]]]
    ELSE IF if_exists = "replace"
    THEN IF Referenced(tables, t)
         THEN [err |-> "DependentObjectsStillExist", tables |-> tables]
         ELSE [err |-> "none",
               tables |-> [tables EXCEPT
                             ![t] = [exists |-> TRUE, keys |-> FALSE, rows |-> frame]]]
    ELSE IF tables[t].keys /\ ~KeysHold(t, tables[t].rows \o frame)
    THEN [err |-> "IntegrityError", tables |-> tables]
    ELSE [err |-> "none", tables |-> [tables EXCEPT ![t].rows = @ \o frame]]

\* the to_sql calls of a loader in their order. data_engineering:
\* load_data of load_to_postgres.py; local_env: load_data (task
\* load_to_postgres) and load_salesdata (task sales_to_postgres) of the DAG
LoaderSteps(loader) ==
    IF loader = "data_engineering"
    THEN <<[table |-> "users", if_exists |-> "replace"],
           [table |-> "products", if_exists |-> "replace"],
           [table |-> "sales", if_exists |-> "replace"]>>
    ELSE <<[table |-> "users", if_exists |-> "append"],
           [table |-> "products", if_exists |-> "append"],
           [table |-> "sales", if_exists |-> "replace"]>>

\* the steps from the k-th on; the first that raises ends the run
RECURSIVE LoadFrom(_, _, _, _)
LoadFrom(tables, files, steps, k) ==
    IF k > Len(steps) THEN [err |-> "none", failed |-> "", tables |-> tables]
    ELSE LET done == ToSql(tables, steps[k].table, ReadCsv(files[steps[k].table]),
                           steps[k].if_exists)
         IN IF done.err # "none"
            THEN [err |-> done.err, failed |-> steps[k].table, tables |-> done.tables]
            ELSE LoadFrom(done.tables, files, steps, k + 1)

\* one run of a loader: create_tables, then its to_sql calls
RunLoader(loader) ==
    /\ check_result[loader] = "passed"
    /\ Len(load_runs[loader]) < MaxRuns
    /\ \E run \in {LoadFrom(CreateTables(db[loader]), csv, LoaderSteps(loader), 1)} :
          /\ db' = [db EXCEPT ![loader] = run.tables]
          /\ load_runs' = [load_runs EXCEPT ![loader] = Append(@, run)]
    /\ UNCHANGED <<baseVars, split, cfVars, concVars, trainerVars, genVars, connVars>>

NextPipeline ==
    \/ GenerateUsers
    \/ GenerateProducts
    \/ GenerateSales
    \/ WriteCsv
    \/ \E version \in Dags : DataQualityChecks(version)
    \/ \E loader \in Dags : RunLoader(loader)

SpecPipeline == Init /\ [][NextPipeline]_vars

\* ------------------------------------------- init_mlflow_db.py
\* retries = 5, delay = 2
retries == 5
delay == 2

\* the database is up at some seconds of the clock and down at the others
InitConn ==
    /\ InitRest
    /\ registry = {}
    /\ db_up \in SUBSET (0..MaxSecond)

\* a loop that never sees its last attempt
LastAttempt_Never(i) == FALSE

\* if i == retries - 1
LastAttempt(i) == i = retries - 1

\* init_mlflow_db calls check_db_connection: for i in range(retries)
CallCheck ==
    /\ conn_pc = "start"
    /\ attempt' = 0
    /\ conn_pc' = "try"
    /\ UNCHANGED <<waits, clock, db_up, conn_result, upgraded>>
    /\ UNCHANGED <<baseVars, split, cfVars, concVars, trainerVars, genVars, loadVars>>

\* psycopg2.connect(...): conn.close() and return True, or OperationalError
Connect ==
    /\ conn_pc = "try"
    /\ IF clock \in db_up
       THEN /\ conn_result' = "True"
            /\ conn_pc' = "returned"
       ELSE /\ conn_pc' = "except"
            /\ UNCHANGED conn_result
    /\ UNCHANGED <<attempt, waits, clock, db_up, upgraded>>
    /\ UNCHANGED <<baseVars, split, cfVars, concVars, trainerVars, genVars, loadVars>>

\* except OperationalError: return False on the last attempt, else go on to
\* the sleep
Except ==
    /\ conn_pc = "except"
    /\ IF LastAttempt(attempt)
       THEN /\ conn_result' = "False"
            /\ conn_pc' = "returned"
       ELSE /\ conn_pc' = "sleep"
            /\ UNCHANGED conn_result
    /\ UNCHANGED <<attempt, waits, clock, db_up, upgraded>>
    /\ UNCHANGED <<baseVars, split, cfVars, concVars, trainerVars, genVars, loadVars>>

\* time.sleep(delay), then the next i of the loop; return False when the
\* range is used up
Sleep ==
    /\ conn_pc = "sleep"
    /\ clock' = clock + delay
    /\ waits' = waits + 1
    /\ IF attempt + 1 < retries
       THEN /\ attempt' = attempt + 1
            /\ conn_pc' = "try"
            /\ UNCHANGED conn_result
       ELSE /\ conn_result' = "False"
            /\ conn_pc' = "returned"
            /\ UNCHANGED attempt
    /\ UNCHANGED <<db_up, upgraded>>
    /\ UNCHANGED <<baseVars, split, cfVars, concVars, trainerVars, genVars, loadVars>>

\* if check_db_connection(): os.system("mlflow db upgrade ...")
Upgrade ==
    /\ conn_pc = "returned"
    /\ conn_result = "True"
    /\ upgraded' = TRUE
    /\ conn_pc' = "done"
    /\ UNCHANGED <<attempt, waits, clock, db_up, conn_result>>
    /\ UNCHANGED <<baseVars, split, cfVars, concVars, trainerVars, genVars, loadVars>>

\* else: print("Database connection failed")
ConnectionFailed ==
    /\ conn_pc = "returned"
    /\ conn_result = "False"
    /\ conn_pc' = "done"
    /\ UNCHANGED <<attempt, waits, clock, db_up, conn_result, upgraded>>
    /\ UNCHANGED <<baseVars, split, cfVars, concVars, trainerVars, genVars, loadVars>>

NextConn ==
    \/ CallCheck
    \/ Connect
    \/ Except
    \/ Sleep
    \/ Upgrade
    \/ ConnectionFailed

\* the script is one sequential process: each of its steps is taken once it
\* can be
SpecConn == InitConn /\ [][NextConn]_vars /\ WF_vars(NextConn)

\* ---------------------------------------------------------------- claims
\* what the warehouse says about a user, independently of the job's tables
BoughtBy(u) == {r.product_id : r \in {x \in BagToSet(sales) : x.user_id = u}}

RowsOf(u, p) ==
    LET rows == {r \in BagToSet(sales) : r.user_id = u /\ r.product_id = p}
    IN SumOver(rows, [r \in rows |-> CopiesIn(r, sales)])

Pids(recs) == {recs[i].product_id : i \in DOMAIN recs}

ScoreIn(recs, p) ==
    IF \E i \in DOMAIN recs : recs[i].product_id = p
    THEN recs[CHOOSE i \in DOMAIN recs : recs[i].product_id = p].score
    ELSE 0

Min(a, b) == IF a < b THEN a ELSE b

Answered(op) == pc = "called" /\ call.op = op /\ result.err = "none"

\* the two lists a hybrid call of the last call's arguments works from
ContentList2N ==
    GenerateContentBasedRecommendations(
        ratings_matrix, product_features, call.user_id, 2 * call.n).recs

CollabList2N ==
    GenerateCollaborativeRecommendations(
        ratings_matrix, call.est, call.user_id, 2 * call.n).recs

\* C1: hybrid_recommendations gives every product of the union of the
\* content-based top-2N list and the collaborative top-2N list the score
\* alpha * content_score + (1 - alpha) * collab_score, a product missing from
\* a list counting 0 for that list; no product outside the union is scored.
C1_HybridScoreOfUnion ==
    Answered("hybrid") =>
        \E content \in {ContentList2N}, collab \in {CollabList2N} :
            /\ DOMAIN hybrid_scores = Pids(content) \cup Pids(collab)
            /\ \A p \in DOMAIN hybrid_scores :
                  hybrid_scores[p] =
                      FDiv(call.alpha * ScoreIn(content, p), Unit)
                      + FDiv((Unit - call.alpha) * ScoreIn(collab, p), Unit)
            /\ \A i \in DOMAIN result.recs :
                  /\ result.recs[i].product_id \in DOMAIN hybrid_scores
                  /\ result.recs[i].score = hybrid_scores[result.recs[i].product_id]

\* a hybrid call with the default alpha that scored one product found only in
\* the content list and one found only in the collaborative list
C1_Witness ==
    /\ Answered("hybrid")
    /\ call.alpha = Unit \div 2
    /\ \E p, q \in DOMAIN hybrid_scores :
          /\ p \in Pids(ContentList2N) \ Pids(CollabList2N)
          /\ q \in Pids(CollabList2N) \ Pids(ContentList2N)
          /\ hybrid_scores[q] > 0

\* C2: for every user and every N, hybrid_recommendations with alpha = 0
\* returns the same products in the same order as
\* generate_collaborative_recommendations with the same N.
C2_AlphaZeroIsCollaborative ==
    (pc = "called" /\ call.op = "hybrid" /\ call.alpha = 0) =>
        result = GenerateCollaborativeRecommendations(
                     ratings_matrix, call.est, call.user_id, call.n)

\* C3: for every user and every N, hybrid_recommendations with alpha = 1
\* returns the same products in the same order as
\* generate_content_based_recommendations with the same N, also when content
\* scores are zero or negative and the collaborative list holds products the
\* content list does not.
C3_AlphaOneIsContent ==
    (pc = "called" /\ call.op = "hybrid" /\ call.alpha = Unit) =>
        result = GenerateContentBasedRecommendations(
                     ratings_matrix, product_features, call.user_id, call.n)

\* C4: the list hybrid_recommendations returns has at most N entries, is
\* sorted by non-increasing hybrid score, and entries of equal score come in
\* ascending product_id order.
C4_HybridSortedTiesById ==
    Answered("hybrid") =>
        /\ Len(result.recs) <= call.n
        /\ \A i, j \in DOMAIN result.recs :
              i < j =>
                 \/ result.recs[i].score > result.recs[j].score
                 \/ /\ result.recs[i].score = result.recs[j].score
                    /\ result.recs[i].product_id < result.recs[j].product_id

\* C5: for every user with zero interactions, a user with no sales rows and
\* so no row in the utility matrix included,
\* generate_content_based_recommendations returns an empty list and raises
\* no error.
C5_NoInteractionsEmptyList ==
    (pc = "called" /\ call.op = "content" /\ BoughtBy(call.user_id) = {}) =>
        result = Returned(<<>>)

\* C6: generate_content_based_recommendations never returns a product the
\* user has a positive interaction count for, and scores every other product
\* of the feature table (the N best of them are returned, each with its
\* cosine similarity to the user profile); with the two products [1,0] and
\* [0,1] and a user whose only interaction is product 1 with count 2, the
\* result is exactly product 2 with score 0.
C6_ContentScoresTheOthers ==
    Answered("content") =>
        \E others \in {products \ BoughtBy(call.user_id)},
           profile \in {UserProfile(ratings_matrix, product_features, call.user_id)} :
            /\ Pids(result.recs) \cap BoughtBy(call.user_id) = {}
            /\ Pids(result.recs) \subseteq others
            /\ Len(result.recs) = Min(call.n, Cardinality(others))
            /\ Cardinality(Pids(result.recs)) = Len(result.recs)
            /\ \A i \in DOMAIN result.recs :
                  /\ result.recs[i].score =
                        CosineSimilarity(profile, product_features[result.recs[i].product_id])
                  /\ \A p \in others \ Pids(result.recs) :
                        CosineSimilarity(profile, product_features[p]) <= result.recs[i].score
            /\ ( /\ products = {1, 2}
                 /\ product_features[1] = <<1, 0>>
                 /\ product_features[2] = <<0, 1>>
                 /\ BoughtBy(call.user_id) = {1}
                 /\ RowsOf(call.user_id, 1) = 2 )
               => result.recs = <<Rec(2, 0)>>

\* the two-product scenario of the claim
C6_Witness ==
    /\ Answered("content")
    /\ products = {1, 2}
    /\ product_features[1] = <<1, 0>>
    /\ product_features[2] = <<0, 1>>
    /\ BoughtBy(call.user_id) = {1}
    /\ RowsOf(call.user_id, 1) = 2
    /\ result.recs = <<Rec(2, 0)>>

\* C7: generate_collaborative_recommendations evaluates every product of the
\* catalog the user has not interacted with, products no user ever bought
\* included, and returns at most N of them sorted by non-increasing estimate,
\* equal estimates in ascending product_id order.
C7_CollaborativeCoversCatalog ==
    Answered("collab") =>
        \E others \in {products \ BoughtBy(call.user_id)} :
            /\ Pids(result.recs) \subseteq others
            /\ Len(result.recs) = Min(call.n, Cardinality(others))
            /\ \A i, j \in DOMAIN result.recs :
                  i < j =>
                     \/ result.recs[i].score > result.recs[j].score
                     \/ /\ result.recs[i].score = result.recs[j].score
                        /\ result.recs[i].product_id < result.recs[j].product_id

\* C8: for every user u and product p that occur in the interaction rows,
\* the utility matrix has matrix[u][p] equal to the interaction_count of the
\* (u, p) row when that row exists and 0 when it does not.
C8_UtilityMatrixCells ==
    pc \in {"matrix", "features", "called"} =>
        /\ ratings_matrix.index = {r.user_id : r \in interactions}
        /\ ratings_matrix.columns = {r.product_id : r \in interactions}
        /\ \A u \in ratings_matrix.index, p \in ratings_matrix.columns :
              IF \E r \in interactions : r.user_id = u /\ r.product_id = p
              THEN /\ \A r \in interactions :
                         (r.user_id = u /\ r.product_id = p) =>
                             ratings_matrix.val[<<u, p>>] = r.interaction_count
                   /\ ratings_matrix.val[<<u, p>>] = RowsOf(u, p)
              ELSE ratings_matrix.val[<<u, p>>] = 0

\* a matrix with the cell of a pair that has a row and the cell of one that
\* has none (p2 known from another user's row)
C8_Witness ==
    /\ pc = "matrix"
    /\ \E u \in ratings_matrix.index, p, q \in ratings_matrix.columns :
          /\ ratings_matrix.val[<<u, p>>] = 1
          /\ RowsOf(u, p) = 1
          /\ ratings_matrix.val[<<u, q>>] = 0
          /\ RowsOf(u, q) = 0

\* C9: load_data followed by engineer_features gives exactly one feature row
\* per user of the users table, users with no sales included; the row of a
\* user with no sales has total_orders = 0, order_frequency = 0,
\* daily_spend = 0 and churned = true.
C9_OneRowPerUser ==
    fe_pc \in {"engineered", "failed"} =>
        /\ {r.user_id : r \in features} = {u.user_id : u \in users}
        /\ \A u \in users : Cardinality({r \in features : r.user_id = u.user_id}) = 1
        /\ \A r \in features :
              SalesOf(sales, r.user_id) = {} =>
                 /\ r.total_orders = Num(0)
                 /\ r.order_frequency = Num(0)
                 /\ r.daily_spend = Num(0)
                 /\ r.churned = 1

\* C10: for every feature row with customer_duration_days = d,
\* order_frequency = total_orders / max(d, 1) and
\* daily_spend = total_spent / max(d, 1), and neither is infinite or NaN,
\* for d = 0 and for users with no orders too.
C10_RatesOverFlooredDuration ==
    fe_pc = "engineered" =>
        \A r \in features :
            /\ IsNum(r.customer_duration_days)
            /\ \E d \in {IF r.customer_duration_days.v > 1
                         THEN r.customer_duration_days.v ELSE 1} :
                  /\ r.order_frequency = Num(FDiv(r.total_orders.v * Unit, d))
                  /\ r.daily_spend = Num(FDiv(r.total_spent.v * Unit, d))

\* a customer whose only order gives d = 0, beside a user with no orders
C10_Witness ==
    /\ fe_pc = "engineered"
    /\ \E r, q \in features :
          /\ r.total_orders = Num(1)
          /\ r.customer_duration_days = Num(0)
          /\ r.order_frequency = Num(Unit)
          /\ r.daily_spend.v > 0
          /\ SalesOf(sales, q.user_id) = {}
          /\ q.order_frequency = Num(0)

\* C11: for every user, the churned label load_data gives is true exactly when
\* the user's most recent sale is more than 90 days before now or the user
\* has no sale at all, and false otherwise.
C11_ChurnedLabel ==
    fe_pc = "loaded" =>
        \A u \in users :
            /\ \E r \in df : r.user_id = u.user_id
            /\ \A r \in df :
                  r.user_id = u.user_id =>
                     /\ r.churned \in {0, 1}
                     /\ r.churned = 1 <=>
                           \A x \in SalesOf(sales, u.user_id) :
                               NowDay - x.sale_date > ChurnDays

\* a customer whose last order is exactly 90 days old beside one whose last
\* order is 91 days old
C11_Witness ==
    /\ fe_pc = "loaded"
    /\ \E r, q \in df :
          /\ r.last_order_date = Num(NowDay - ChurnDays)
          /\ r.churned = 0
          /\ q.last_order_date = Num(NowDay - ChurnDays - 1)
          /\ q.churned = 1

\* a churn request whose records all pass validation, met by a loadable model
ChurnRequestServed ==
    /\ request.endpoint = "churn"
    /\ Len(request.users) > 0
    /\ \A i \in DOMAIN request.users : ValidUserData(request.users[i])
    /\ LoadModel(registry, ChurnModelName, ProductionStage)

\* the feature fields of a request record: all but its identifier
FeatureFields(rec) == rec.fields \ {"user_id"}

\* C12: the churn scoring path rejects a feature record whose fields are not
\* the nine training features (age, total_orders, total_spent,
\* days_since_last_order, avg_order_value, customer_duration_days,
\* order_frequency, daily_spend, country_encoded), one with eight fields for
\* example, with a schema mismatch error (the rejection of the request body,
\* not the failure of the prediction) instead of a prediction.
C12_RejectsSchemaMismatch ==
    ( /\ request.endpoint = "churn"
      /\ LoadModel(registry, ChurnModelName, ProductionStage)
      /\ \E i \in DOMAIN request.users :
            FeatureFields(request.users[i]) # TrainingFeatures )
    => response.status = HttpUnprocessable

C16_FeaturesOrNotFound ==
    request.endpoint = "features" =>
        IF \E u \in users : u.user_id = request.user_id
        THEN /\ response.status = HttpOk
             /\ response.row.user_id = request.user_id
             /\ response.row.total_orders = Num(CountSales(sales, request.user_id))
        ELSE /\ response.status = HttpNotFound
             /\ response.status # HttpServerError

\* the model an endpoint loads
EndpointModel(endpoint) ==
    IF endpoint = "churn" THEN ChurnModelName ELSE RecommendationModelName

\* C17: when the registry has no artifact for one model, requests that need
\* that model fail with HTTP 500 and requests to the other prediction
\* endpoint, whose model is there, still succeed, whatever was asked before.
C17_FailureStaysWithItsSlot ==
    ( /\ request.endpoint \in {"churn", "recommend"}
      /\ request.endpoint = "churn" => Len(request.users) > 0
      /\ response.status # HttpUnprocessable
      /\ \E name \in ModelNames : ~LoadModel(registry, name, ProductionStage) )
    => response.status =
          IF LoadModel(registry, EndpointModel(request.endpoint), ProductionStage)
          THEN HttpOk ELSE HttpServerError

\* C18: GET /health always answers 200 with status "healthy" and a
\* model_status entry for churn_model and for recommendation_model, whether
\* or not the models load; a load failure shows as an error string inside
\* model_status only.
C18_HealthAlwaysHealthy ==
    request.endpoint = "health" =>
        /\ response.status = HttpOk
        /\ response.detail = "healthy"
        /\ DOMAIN response.model_status = {"churn_model", "recommendation_model"}
        /\ response.model_status.churn_model = "available"
              <=> LoadModel(registry, ChurnModelName, ProductionStage)
        /\ response.model_status.recommendation_model = "available"
              <=> LoadModel(registry, RecommendationModelName, ProductionStage)

\* a health answer given while one model loads and the other does not
C18_Witness ==
    /\ request.endpoint = "health"
    /\ response.status = HttpOk
    /\ response.model_status.churn_model # "available"
    /\ response.model_status.recommendation_model = "available"

\* C20: once the churn training job and the recommendation training job have
\* run to completion, load_model(name, "Production") resolves a registered
\* artifact for churn_prediction_model and for product_recommendation_model.
C20_TrainedModelsInProduction ==
    (\A j \in JobNames : jobs[j] = "done") =>
        \A j \in JobNames : LoadModel(registry, JobModel(j), ProductionStage)

\* the place of the data quality check in a chain
QualityCheck(d) == CHOOSE i \in Tasks(d) : Chain(d)[i] = "data_quality_check"

\* C19: each DAG is a linear chain (generate_data -> data_quality_check ->
\* load_to_postgres; data_quality_check -> schema_to_postgres ->
\* load_to_postgres -> sales_to_postgres): in every run a task starts only
\* after its predecessor in the chain has succeeded, so when the data quality
\* check fails no schema or load task ever runs in that run.
C19_LinearChain ==
    \A d \in Dags :
        /\ \A i \in Tasks(d) :
              (i > 1 /\ try_number[d][i] > 0) => task_state[d][i - 1] = "success"
        /\ task_state[d][QualityCheck(d)] \in {"up_for_retry", "failed"} =>
              \A i \in Tasks(d) :
                  i > QualityCheck(d) =>
                     /\ try_number[d][i] = 0
                     /\ task_state[d][i] \in {"none", "upstream_failed"}

\* one run got through its whole chain, the other lost its quality check on
\* the last try and had its later tasks marked upstream_failed
C19_Witness ==
    /\ \A i \in Tasks("data_engineering") : task_state["data_engineering"][i] = "success"
    /\ task_state["local_env"][QualityCheck("local_env")] = "failed"
    /\ try_number["local_env"][QualityCheck("local_env")] = Retries + 1
    /\ \A i \in Tasks("local_env") :
          i > QualityCheck("local_env") => task_state["local_env"][i] = "upstream_failed"

\* fewer than 2 distinct users or fewer than 2 distinct products
InsufficientData(rows) ==
    \/ Cardinality({r.user_id : r \in rows}) < 2
    \/ Cardinality({r.product_id : r \in rows}) < 2

\* C21: collaborative_filtering called with insufficient data (interactions
\* of fewer than 2 distinct users or fewer than 2 distinct products) ends in
\* a ModelTrainingError, not in a library exception and not in a model.
C21_InsufficientDataIsTrainingError ==
    (cf_result # NotCalled /\ InsufficientData(cf_interactions)) =>
        cf_result = "ModelTrainingError"

\* C22: engineer_features and preprocess_data leave the frame they are given
\* as it was: after engineer_features the frame load_data returned still is
\* the result of the query, and after preprocess_data the frame
\* engineer_features returned has no column it did not have before.
C22_InputFramesUnchanged ==
    /\ fe_pc \in {"engineered", "preprocessed", "split failed"} =>
          df = ChurnQuery(users, sales)
    /\ fe_pc \in {"preprocessed", "split failed"} =>
          features = {CleanRow(AddColumns(r)) : r \in ChurnQuery(users, sales)}

\* the answers a request gets when it is the only one handled
AloneOutcomes(req) ==
    IF req.endpoint = "churn" THEN ChurnOutcomes(registry, req.users)
    ELSE IF req.endpoint = "recommend"
    THEN RecommendOutcomes(registry, products, sales, req.user_id, req.n)
    ELSE IF req.endpoint = "features"
    THEN {UserFeaturesOutcome(users, sales, req.user_id)}
    ELSE {[Answer(HttpOk, "healthy") EXCEPT
             !.model_status =
                 [churn_model |-> ModelStatus(registry, ChurnModelName),
                  recommendation_model |-> ModelStatus(registry, RecommendationModelName)]]}

\* C23: handlers of predict_churn, recommend_products, get_user_features and
\* health_check that run interleaved over one registry and one warehouse
\* snapshot share no mutable state: each request is answered as it would be if
\* it were handled alone, and no step of a handler changes the registry or a
\* table of the warehouse.
C23_RequestsDoNotInterfere ==
    /\ [](\A slot \in Slots :
            inflight[slot].pc = "done" =>
                inflight[slot].response \in AloneOutcomes(inflight[slot].request))
    /\ [][(\E slot \in Slots : HandlerStep(slot)) =>
             UNCHANGED <<registry, users, products, sales>>]_vars

\* a recommendation request and a churn request handled at the same time, the
\* first with its model there and answered, the second refused for its
\* missing model
C23_Witness ==
    \E a, b \in Slots :
        /\ inflight[a].request.endpoint = "recommend"
        /\ inflight[a].pc = "done"
        /\ inflight[a].response.status = HttpOk
        /\ inflight[b].request.endpoint = "churn"
        /\ inflight[b].pc = "done"
        /\ inflight[b].response.detail = "Prediction failed: Model loading failed"

\* sum(count_p * vector_p) / sum(count_p) over the products the user bought,
\* the counts taken from the sales table
WeightedAverage(u) ==
    LET bought == BoughtBy(u)
        counts == SumOver(bought, [p \in bought |-> RowsOf(u, p)])
    IN [i \in FeatureDims |->
          FDiv(SumOver(bought, [p \in bought |-> RowsOf(u, p) * product_features[p][i]])
               * Unit, counts)]

\* C24: the user profile generate_content_based_recommendations computes is
\* the interaction-count-weighted average of the feature vectors of the
\* products the user interacted with, sum(count_p * vector_p) / sum(count_p);
\* a user whose only interaction is count 2 on a product of vector [1, 0] has
\* the profile [1, 0].
C24_ProfileIsWeightedAverage ==
    (Answered("content") /\ BoughtBy(call.user_id) # {}) =>
        UserProfile(ratings_matrix, product_features, call.user_id)
            = WeightedAverage(call.user_id)

\* the candidate of the highest score, the first trained among equals
ArgMaxFirst(scores) ==
    CHOOSE k \in DOMAIN scores :
        /\ \A j \in DOMAIN scores : scores[j] <= scores[k]
        /\ \A j \in DOMAIN scores : scores[j] = scores[k] => k <= j

\* C25: train_models returns the candidate with the highest held-out ROC AUC
\* among Logistic_Regression, Random_Forest and Gradient_Boosting together
\* with that AUC, the first trained of several that share the highest AUC;
\* whatever the three AUC values are, all equal to 0 included, the returned
\* model is one of the three candidates.
C25_BestCandidateReturned ==
    train_result.err = "none" =>
        \E k \in {ArgMaxFirst(train_result.scores)} :
            /\ train_result.name = ModelOrder[k]
            /\ train_result.model = ModelOrder[k]
            /\ train_result.score = train_result.scores[k]
            /\ train_result.model \in Range(ModelOrder)

\* C26: hyperparameter_tuning called after train_models selected a candidate
\* runs its grid search on an estimator of the selected candidate's family,
\* with a parameter grid that family accepts, whichever of the three
\* candidates was selected.
C26_TuningFollowsChampion ==
    (tune_result.err # NotCalled /\ tune_result.after \in Range(ModelOrder)) =>
        /\ tune_result.searched = tune_result.after
        /\ ParamGrid \subseteq GridParamsOf(tune_result.searched)
        /\ tune_result.err = "none"

\* C27: in the trainer of main.py, champion_name and champion_model are None
\* until a train_models call has returned and from then on are the name and
\* the model the most recent train_models call returned; hyperparameter_tuning
\* searches exactly that model, and ends in an error when no train_models
\* call returned before it.
C27_ChampionFollowsTraining ==
    trainer_impl = "main.py" =>
        /\ champion_name = train_result.name
        /\ champion_model = train_result.model
        /\ train_result.err = NotCalled =>
              champion_name = None /\ champion_model = None
        /\ tune_result.err # NotCalled =>
              /\ tune_result.after # None => tune_result.searched = tune_result.after
              /\ tune_result.after = None => tune_result.err \notin {"none", NotCalled}

\* a tuning that was tried before any training and ended in TypeError, and a
\* training after it that made Gradient_Boosting the champion
C27_Witness ==
    /\ trainer_impl = "main.py"
    /\ tune_result.err = "TypeError"
    /\ tune_result.after = None
    /\ train_result.err = "none"
    /\ champion_name = "Gradient_Boosting"
    /\ champion_model = "Gradient_Boosting"

RowsAfter(run) == [t \in TableNames |-> run.tables[t].rows]

\* C29: running a loader a second time with the CSV files unchanged leaves the
\* users, products and sales tables with the rows they had after the first
\* run, no row twice, and no load step of either run fails; this holds of the
\* loader of data_engineering and of the loader of the local_env DAG.
C29_ReloadIsIdempotent ==
    \A loader \in Dags :
        Len(load_runs[loader]) >= 2 =>
            /\ load_runs[loader][1].err = "none"
            /\ load_runs[loader][2].err = "none"
            /\ RowsAfter(load_runs[loader][2]) = RowsAfter(load_runs[loader][1])

\* the attempts made so far failed: the database was down at each of their
\* seconds
FailedBefore(i) == \A k \in 0..(i - 1) : (k * delay) \notin db_up

\* C30: check_db_connection ends after at most 5 connection attempts; it
\* returns True at the first attempt that succeeds and False after exactly 5
\* OperationalErrors in a row; it sleeps only between attempts, at most 4
\* times and not after the last failure; and init_mlflow_db runs the database
\* upgrade only when it returned True.
C30_ConnectionCheckTerminates ==
    /\ [](/\ attempt < retries
          /\ waits <= retries - 1
          /\ waits <= attempt
          /\ conn_result = "True" =>
                /\ clock \in db_up
                /\ FailedBefore(attempt)
                /\ waits = attempt
          /\ conn_result = "False" =>
                /\ attempt = retries - 1
                /\ FailedBefore(retries)
                /\ waits = retries - 1
          /\ upgraded => conn_result = "True")
    /\ <>(conn_pc = "done")
    /\ <>(conn_result \in {"True", "False"})

\* the database stayed down: False after the fifth failure, four sleeps, no
\* upgrade
C30_Witness ==
    /\ conn_pc = "done"
    /\ conn_result = "False"
    /\ attempt = retries - 1
    /\ waits = retries - 1
    /\ clock = (retries - 1) * delay
    /\ ~upgraded
====
